---- MODULE Spec2Model ----
(***************************************************************************)
(* Verification model of the Tendermint core of autonity:                  *)
(*   - the accountability message store (MsgStore, src/unnamed/part_000),  *)
(*   - the core state machine (handleMsg, handleCurrentHeightMessage,      *)
(*     checkUponConditions and the event loop, src/unnamed/part_001).      *)
(* Two specifications share the module: SpecStore drives the store from    *)
(* two threads, SpecCore drives one core instance from its event loop.     *)
(***************************************************************************)
EXTENDS Integers, Sequences, FiniteSets, Bags, TLC

(***************************************************************************)
(* Bounds                                                                  *)
(***************************************************************************)
\* heights of the messages handed to the store are 1..MaxHeight
MaxHeight == 2
\* number of Save calls in one behaviour of the store
MaxSaves == 2
\* the precommit timeout starts round r+1 only while r < MaxRoundReached
MaxRoundReached == 2
\* blocks the backend finalises after Start
MaxCommits == 1

(***************************************************************************)
(* Message store: values                                                   *)
(***************************************************************************)
\* message codes of the votes kept in the store (prevote, precommit)
StoreCodes == {1, 2}
StoreRounds == {0}
StoreAddrs == {"V1"}
\* two payloads under one (height, round, code, sender) key are distinct messages
StorePayloads == {"x", "y"}
\* consensus messages exist from block 1 on; 0 is the height of no message
StoreHeights == 1 .. MaxHeight
\* the heights DeleteMsgsBeforeHeight is called with
DeleteHeights == 0 .. MaxHeight

StoreMsgs ==
  [H : StoreHeights, R : StoreRounds, Code : StoreCodes,
   Address : StoreAddrs, Payload : StorePayloads]

NoMsg == [H |-> -1, R |-> -1, Code |-> 0, Address |-> "none", Payload |-> "none"]

\* the (round, code, sender) part of the map key below a height
StoreKeys == [R : StoreRounds, Code : StoreCodes, Address : StoreAddrs]
NoKey == [R |-> -1, Code |-> 0, Address |-> "none"]

KeyOf(m) == [R |-> m.R, Code |-> m.Code, Address |-> m.Address]

\* the threads that share the store: the inbound decoding thread saves, the
\* accountability detector queries and prunes
Decoder == "decoder"
Detector == "detector"
Threads == {Decoder, Detector}

\* caller-supplied query predicates handed to Get
QAll == [kind |-> "all", m |-> NoMsg]
QEq(m) == [kind |-> "eq", m |-> m]
\* a predicate that itself calls Save on the store
QSaves == [kind |-> "saves", m |-> NoMsg]
NoQuery == [kind |-> "none", m |-> NoMsg]
Queries(h) == {QAll, QSaves} \cup {QEq(m) : m \in {x \in StoreMsgs : x.H = h}}

\* a position in the lists below one height: key and 1-based index
NoPos == [k |-> NoKey, i |-> 0]

NoArg == [m |-> NoMsg, h |-> -1, k |-> NoKey, q |-> NoQuery]

VARIABLES
  messages,     \* MsgStore.messages: height -> key -> list of messages
  firstHeight,  \* MsgStore.firstHeight
  writer,       \* RWMutex: the thread holding the exclusive lock, or "none"
  readers,      \* RWMutex: the threads holding the shared lock
  pc,           \* per thread: the store method it is executing
  arg,          \* per thread: the arguments of that method
  pending,      \* Get: positions of the height not yet visited by the loops
  cur,          \* Get: position whose message is being passed to query
  result,       \* Get: positions appended to result so far
  saveLog,      \* history: the heights of the messages saved, in order of Save
  live,         \* history: saved messages not since deleted or removed
  afterDelete   \* history: h when the last completed mutation is
                \* DeleteMsgsBeforeHeight(h) on a store that held a message,
                \* else -1

storeVars ==
  <<messages, firstHeight, writer, readers, pc, arg, pending, cur, result,
    saveLog, live, afterDelete>>

(***************************************************************************)
(* Message store: the methods as functions of the fields                   *)
(***************************************************************************)
EmptyMap == [x \in {} |-> <<>>]

RoundMapOf(msgs, h) == IF h \in DOMAIN msgs THEN msgs[h] ELSE EmptyMap

ListOf(msgs, h, k) ==
  LET rm == RoundMapOf(msgs, h) IN IF k \in DOMAIN rm THEN rm[k] ELSE <<>>

\* Save, lines 31-33
SaveFirstHeightLowest(fh, m) == IF fh = 0 \/ m.H < fh THEN m.H ELSE fh

SaveFirstHeight(fh, m) == IF fh = 0 THEN m.H ELSE fh

\* Save, lines 35-61: the nested maps are created on demand and the message
\* is appended to the list of its key
SaveMessagesOverwrite(msgs, m) ==
  LET rm == RoundMapOf(msgs, m.H)
      k == KeyOf(m)
  IN [h \in DOMAIN msgs \cup {m.H} |->
        IF h = m.H
          THEN [x \in DOMAIN rm \cup {k} |-> IF x = k THEN <<m>> ELSE rm[x]]
          ELSE msgs[h]]

SaveMessages(msgs, m) ==
  LET rm == RoundMapOf(msgs, m.H)
      k == KeyOf(m)
  IN [h \in DOMAIN msgs \cup {m.H} |->
        IF h = m.H
          THEN [x \in DOMAIN rm \cup {k} |->
                  IF x = k THEN Append(ListOf(msgs, m.H, k), m) ELSE rm[x]]
          ELSE msgs[h]]

\* DeleteMsgsBeforeHeight, lines 73-78
DeleteBelow(msgs, height) ==
  [h \in {x \in DOMAIN msgs : ~(x < height)} |-> msgs[h]]

DeleteMessages(msgs, height) ==
  [h \in {x \in DOMAIN msgs : ~(x <= height)} |-> msgs[h]]

\* DeleteMsgsBeforeHeight, lines 70-79: no statement assigns ms.firstHeight
DeleteFirstHeightAdvance(fh, height) == IF fh <= height THEN height + 1 ELSE fh

DeleteFirstHeight(fh, height) == fh

\* RemoveMsg, line 85: delete on a missing (nil) inner map is a no-op
RemoveMessages(msgs, height, k) ==
  IF height \in DOMAIN msgs
    THEN [h \in DOMAIN msgs |->
            IF h = height
              THEN [x \in DOMAIN msgs[h] \ {k} |-> msgs[h][x]]
              ELSE msgs[h]]
    ELSE msgs

\* Get, lines 94-101: what the four nested loops range over
PositionsAt(msgs, h) ==
  LET rm == RoundMapOf(msgs, h)
  IN UNION {{[k |-> k, i |-> i] : i \in 1 .. Len(rm[k])} : k \in DOMAIN rm}

MsgAt(msgs, h, p) == msgs[h][p.k][p.i]

\* the value a side-effect free predicate returns on msg
QueryHolds(q, msg) ==
  CASE q.kind = "all" -> TRUE
    [] q.kind = "eq" -> msg = q.m
    [] OTHER -> FALSE

\* sync.RWMutex: Lock waits for the writer and for every reader, the calling
\* thread's own shared lock included; RLock waits for the writer
CanLock == writer = "none" /\ readers = {}
CanRLock == writer = "none"

RetainedHeights(msgs) ==
  {h \in DOMAIN msgs : \E k \in DOMAIN msgs[h] : Len(msgs[h][k]) > 0}

(***************************************************************************)
(* Core state machine: values                                              *)
(***************************************************************************)
\* message codes and steps
msgProposal == 0
msgPrevote == 1
msgPrecommit == 2
propose == 0
prevote == 1
precommit == 2

\* the committee of the scenarios: four members of voting power 1
Committee == <<"V1", "V2", "V3", "V4">>
Members == {Committee[i] : i \in 1 .. Len(Committee)}
VotingPower(a) == 1
TotalPower == Len(Committee)
\* strict supermajority of the voting power: 3 of 4
Quorum == (2 * TotalPower) \div 3 + 1

\* the node that runs the core
Self == "V3"
\* backend.LastCommittedProposal().Number() + 1 at Start
StartHeight == 10

\* weighted round-robin over an equal-weight committee
Proposer(h, r) == Committee[((h - StartHeight + r) % Len(Committee)) + 1]

\* blocks are named by their hash; nilValue is the zero hash, NilBlock the
\* nil *types.Block
nilValue == "nil"
NilBlock == "nilBlock"
\* the block the local node proposes when it has no valid value
FreshBlock == "S"

Msg(code, h, r, v, vr, a) ==
  [Code |-> code, H |-> h, R |-> r, Value |-> v, ValidRound |-> vr,
   Address |-> a, Signer |-> a, SealOk |-> TRUE]

NoProposal == Msg(msgProposal, -1, -1, "none", -1, "none")

\* the payloads the network delivers besides the node's own broadcasts
EnvProposals ==
  {Msg(msgProposal, StartHeight, 0, "A", -1, "V1"),
   Msg(msgProposal, StartHeight, 1, "A", 0, "V2")}
EnvPrevotes ==
  {Msg(msgPrevote, StartHeight, 0, nilValue, -1, a) : a \in {"V1", "V2"}}
    \cup {Msg(msgPrevote, StartHeight, 0, "A", -1, a) : a \in {"V1", "V2", "V4"}}
    \cup {Msg(msgPrevote, StartHeight, 1, nilValue, -1, a) : a \in {"V1", "V2"}}
EnvPrecommits ==
  {Msg(msgPrecommit, StartHeight, 0, "A", -1, a) : a \in {"V1", "V2", "V4"}}
EnvMsgs == EnvProposals \cup EnvPrevotes \cup EnvPrecommits

\* payloads of the runs with rejected messages: equivocating proposals, a
\* precommit with a committed seal that does not verify, a prevote of a
\* non-member and a prevote whose signature is not the sender's, besides
\* two prevotes that pass the checks
DuplicateProposals ==
  {Msg(msgProposal, StartHeight, 0, "A", -1, "V1"),
   Msg(msgProposal, StartHeight, 0, "B", -1, "V1")}
BadSealPrecommits ==
  {[Msg(msgPrecommit, StartHeight, 0, "A", -1, "V1") EXCEPT !.SealOk = FALSE]}
NonMemberMsgs ==
  {Msg(msgPrevote, StartHeight, 0, nilValue, -1, "V9")}
ForgedMsgs ==
  {[Msg(msgPrevote, StartHeight, 0, nilValue, -1, "V1") EXCEPT !.Signer = "V9"]}
GoodPrevotes ==
  {Msg(msgPrevote, StartHeight, 0, nilValue, -1, a) : a \in {"V2", "V4"}}
ErrorMsgs ==
  DuplicateProposals \cup BadSealPrecommits \cup NonMemberMsgs \cup ForgedMsgs
    \cup GoodPrevotes

\* payloads of the runs over several heights: the proposal of the first
\* height, a quorum of precommits for it, and a prevote and a proposal of
\* the next height
HeightProposals == {Msg(msgProposal, StartHeight, 0, "A", -1, "V1")}
NextHeightMsgs ==
  {Msg(msgPrevote, StartHeight + 1, 0, nilValue, -1, "V1"),
   Msg(msgProposal, StartHeight + 1, 0, "C", -1, Proposer(StartHeight + 1, 0))}
GoodPrecommits ==
  {Msg(msgPrecommit, StartHeight, 0, "A", -1, a) : a \in {"V1", "V2", "V4"}}
HeightMsgs == HeightProposals \cup NextHeightMsgs \cup GoodPrecommits

\* payloads of scenario S2 as V3 receives them: the proposer of round 0, V1,
\* is silent; V2 and V4 prevote and precommit nil in round 0; V2 proposes
\* block "B1" in round 1 and V2 and V4 prevote and precommit it
S2Block == "B1"
S2Msgs ==
  {Msg(c, StartHeight, 0, nilValue, -1, a) :
     c \in {msgPrevote, msgPrecommit}, a \in {"V2", "V4"}}
    \cup {Msg(msgProposal, StartHeight, 1, S2Block, -1, Proposer(StartHeight, 1))}
    \cup {Msg(c, StartHeight, 1, S2Block, -1, a) :
            c \in {msgPrevote, msgPrecommit}, a \in {"V2", "V4"}}

\* payloads of scenario S4 as V3 receives them: V1 proposes "B" in round 0,
\* the others prevote it and fewer than a quorum of precommits for it
\* arrive; V2 proposes the fresh block "B2" in round 1 and the locked nodes
\* prevote and precommit nil; in round 2 V3 is the proposer and the others
\* prevote and precommit "B"
S4Block == "B"
S4FreshBlock == "B2"
S4Msgs ==
  {Msg(msgProposal, StartHeight, 0, S4Block, -1, Proposer(StartHeight, 0))}
    \cup {Msg(msgPrevote, StartHeight, 0, S4Block, -1, a) : a \in {"V1", "V2", "V4"}}
    \cup {Msg(msgPrecommit, StartHeight, 0, S4Block, -1, "V2"),
          Msg(msgPrecommit, StartHeight, 0, nilValue, -1, "V1")}
    \cup {Msg(msgProposal, StartHeight, 1, S4FreshBlock, -1, Proposer(StartHeight, 1))}
    \cup {Msg(c, StartHeight, 1, nilValue, -1, a) :
            c \in {msgPrevote, msgPrecommit}, a \in {"V2", "V4"}}
    \cup {Msg(c, StartHeight, 2, S4Block, -1, a) :
            c \in {msgPrevote, msgPrecommit}, a \in {"V2", "V4"}}

(***************************************************************************)
(* Core state machine: state of one core instance                          *)
(***************************************************************************)
VARIABLES
  height,          \* core.height
  round,           \* core.round
  step,            \* core.step
  lockedValue,     \* core.lockedValue (a block, NilBlock for nil)
  lockedRound,     \* core.lockedRound
  validValue,      \* core.validValue
  validRound,      \* core.validRound
  line34Executed,  \* core.line34Executed
  line36Executed,  \* core.line36Executed
  line47Executed,  \* core.line47Executed
  msgCache,        \* core.msgCache: the messages added and the hashes set valid
  timers,          \* the scheduled propose, prevote and precommit timeouts
  scheduled,       \* the calls of scheduleTimeout so far, a bag of timers
  sent,            \* the messages this core has broadcast
  committed,       \* the calls of commit made so far
  running,         \* "new" before Start, "running", "panicked" after a panic
  gossiped,        \* the payloads handed to backend.Gossip
  failed,          \* the payloads handleMsg returned an error for (logged)
  evaluated,       \* the messages checkUponConditions was called on
  chainHead,       \* backend.LastCommittedProposal().Number()
  commitPending    \* a CommitEvent waits in committedSub

coreVars ==
  <<height, round, step, lockedValue, lockedRound, validValue, validRound,
    line34Executed, line36Executed, line47Executed, msgCache, timers,
    scheduled, sent, committed, running, gossiped, failed, evaluated, chainHead, commitPending>>

(***************************************************************************)
(* Codec: 64-bit words.  A word is four 16-bit limbs, most significant     *)
(* first; uint64(x) and int64(x) keep the bits and change only how         *)
(* comparisons read them.                                                  *)
(***************************************************************************)
Limb == 65536
HalfLimb == 32768
\* the largest round a decoder accepts
MaxRound == 99

\* the word of a small integer, negative ones in two's complement
ToWord(i) ==
  IF i >= 0 THEN <<0, 0, 0, i>>
  ELSE <<Limb - 1, Limb - 1, Limb - 1, Limb + i>>

\* a < b and a <= b read as uint64
LessU(a, b) ==
  \E i \in 1 .. 4 : a[i] < b[i] /\ \A j \in 1 .. (i - 1) : a[j] = b[j]
LessEqU(a, b) == a = b \/ LessU(a, b)

\* the sign bit, and a <= b read as int64
IsNeg(a) == a[1] >= HalfLimb
LessEqS(a, b) ==
  IF IsNeg(a) # IsNeg(b) THEN IsNeg(a) ELSE LessEqU(a, b)

\* a nil *types.Block
NilProposalBlock == "nilBlock"

\* Proposal{Round, Height, ValidRound, ProposalBlock} and
\* Vote{Round, Height, ProposedBlockHash}; Round and ValidRound are int64
CodecProposal(r, h, vr, b) ==
  [kind |-> "proposal", Round |-> r, Height |-> h, ValidRound |-> vr,
   ProposalBlock |-> b]
CodecVote(r, h, v) ==
  [kind |-> "vote", Round |-> r, Height |-> h, ProposedBlockHash |-> v]

CodecError(e) == [kind |-> "error", err |-> e]
NoCodecValue == [kind |-> "none"]

\* the list rlp.Encode writes and s.Decode reads back, field by field
ProposalWire(r, h, vr, isNil, b) ==
  [kind |-> "proposalWire", Round |-> r, Height |-> h, ValidRound |-> vr,
   IsValidRoundNil |-> isNil, ProposalBlock |-> b]
VoteWire(r, h, v) ==
  [kind |-> "voteWire", Round |-> r, Height |-> h, ProposedBlockHash |-> v]

\* Proposal.EncodeRLP
EncodeProposalRawField(p) ==
  IF p.ProposalBlock = NilProposalBlock
    THEN CodecError("encoderlp proposal with nil block")
    ELSE ProposalWire(p.Round, p.Height, p.ValidRound,
                      p.ValidRound = ToWord(-1), p.ProposalBlock)

EncodeProposal(p) ==
  IF p.ProposalBlock = NilProposalBlock
    THEN CodecError("encoderlp proposal with nil block")
    ELSE LET isNil == p.ValidRound = ToWord(-1)
             vRound == IF isNil THEN ToWord(0) ELSE p.ValidRound
         IN ProposalWire(p.Round, p.Height, vRound, isNil,
                         p.ProposalBlock)

\* Proposal.DecodeRLP: validRound is compared as int64, proposal.Round as
\* uint64
DecodeProposal(w) ==
  IF w.IsValidRoundNil /\ w.ValidRound # ToWord(0)
    THEN CodecError("bad proposal vRound with isValidround nil")
    ELSE LET vRound == IF w.IsValidRoundNil THEN ToWord(-1) ELSE w.ValidRound
         IN IF ~(LessEqS(vRound, ToWord(MaxRound))
                   /\ LessEqU(w.Round, ToWord(MaxRound)))
              THEN CodecError("bad proposal with invalid rounds")
              ELSE IF w.ProposalBlock = NilProposalBlock
                THEN CodecError("bad proposal with nil decoded block")
                ELSE CodecProposal(w.Round, w.Height, vRound, w.ProposalBlock)

\* Vote.EncodeRLP
EncodeVote(v) == VoteWire(v.Round, v.Height, v.ProposedBlockHash)

\* Vote.DecodeRLP: sub.Round = int64(vote.Round) is compared as int64
DecodeVote(w) ==
  IF ~LessEqS(w.Round, ToWord(MaxRound))
    THEN CodecError("errInvalidMessage")
    ELSE CodecVote(w.Round, w.Height, w.ProposedBlockHash)

\* the messages handed to the encoder and the lists read from the network
CodecHeights == {10}
CodecBlocks == {"A", NilProposalBlock}
CodecHashes == {"A", "nil"}
CodecRounds == {ToWord(i) : i \in 0 .. MaxRound + 1}
CodecValidRounds == {ToWord(i) : i \in (-1) .. MaxRound + 1}
CodecProposals ==
  {CodecProposal(r, h, vr, b) :
     r \in CodecRounds, h \in CodecHeights, vr \in CodecValidRounds,
     b \in CodecBlocks}
CodecVotes ==
  {CodecVote(r, h, v) : r \in CodecRounds, h \in CodecHeights, v \in CodecHashes}
WireRounds ==
  {ToWord(0), ToWord(1), ToWord(MaxRound), ToWord(MaxRound + 1),
   <<HalfLimb - 1, Limb - 1, Limb - 1, Limb - 1>>, <<HalfLimb, 0, 0, 0>>,
   <<HalfLimb, 0, 0, 1>>, ToWord(-2), ToWord(-1)}
NetProposalWires ==
  {ProposalWire(r, h, vr, n, b) :
     r \in WireRounds, h \in CodecHeights, vr \in WireRounds,
     n \in BOOLEAN, b \in CodecBlocks}
NetVoteWires ==
  {VoteWire(r, h, v) : r \in WireRounds, h \in CodecHeights, v \in CodecHashes}

VARIABLES
  codecPc,     \* "idle", "wire" (a list is ready to decode), "decoded"
  codecIn,     \* the message that was encoded, NoCodecValue for a list that
               \* came from the network
  wire,        \* the encoded list, or the encoder's error
  codecOut     \* the decoder's result: a message or an error

codecVars == <<codecPc, codecIn, wire, codecOut>>

(***************************************************************************)
(* Shutdown: core.Start, core.Stop and the three event workers             *)
(***************************************************************************)
\* handleNewUnminedBlockEvent, mainEventLoop and syncLoop
UnminedLoop == "handleNewUnminedBlockEvent"
MainLoop == "mainEventLoop"
SyncLoop == "syncLoop"
Workers == {UnminedLoop, MainLoop, SyncLoop}

VARIABLES
  stopPc,      \* core.Stop: "idle", "timersStopped", "cancelled",
               \* "unsubscribed" (waiting on c.stopped), "returned"
  ctxDone,     \* the context of Start was cancelled
  subscribed,  \* the event subscriptions are open
  workerPc,    \* per worker: "none", "startRound", "select", "handling",
               \* "send" (blocked on c.stopped <- struct{}{}), "exited"
  signals,     \* per worker: the sends on c.stopped that were received
  received     \* core.Stop: the receives from c.stopped that returned

stopVars == <<stopPc, ctxDone, subscribed, workerPc, signals, received>>

(***************************************************************************)
(* Ethereum.validatorController (src/eth/backend.go) and TxSenderCacher    *)
(* (src/core/tx_cacher.go)                                                 *)
(***************************************************************************)
VARIABLES
  ctlPc,           \* validatorController: "start", "select", "returned"
  wasValidating,   \* the local variable wasValidating
  minerCalls,      \* the calls of s.miner.Start and s.miner.Stop, in order
  heads,           \* for every head processed so far, the current block first:
                   \* whether the local address is a member of its committee
  consensusEnodes, \* the last UpdateConsensusEnodes: "unset", "committee", "nil"
  isClosed,        \* *cacher.isClosed, 0 or 1
  tasks,           \* cacher.tasks: the tasks buffered, whether the channel is
                   \* closed, and the number of close(cacher.tasks) executed
  recoverPc,       \* the call of recover: its position, the loop index i and
                   \* the local variable tasks
  closePc,         \* per caller of Close: "idle", "close", "returned"
  cachePc,         \* per cache goroutine: "range", "exited"
  cacherPanic      \* a goroutine sent on the closed channel: the process ended

ctlVars == <<ctlPc, wasValidating, minerCalls, heads, consensusEnodes>>
cacherVars == <<isClosed, tasks, recoverPc, closePc, cachePc, cacherPanic>>
ethVars == <<ctlVars, cacherVars>>

(***************************************************************************)
(* Message store: actions                                                  *)
(***************************************************************************)
StoreInit ==
  /\ messages = EmptyMap
  /\ firstHeight = 0
  /\ writer = "none"
  /\ readers = {}
  /\ pc = [t \in Threads |-> "idle"]
  /\ arg = [t \in Threads |-> NoArg]
  /\ pending = {}
  /\ cur = NoPos
  /\ result = {}
  /\ saveLog = <<>>
  /\ live = {}
  /\ afterDelete = -1

\* Save line 28: ms.Lock().  The decoding thread calls Save; a query
\* predicate that saves calls it from inside Get, on the detector thread.
SaveLock(t, m) ==
  /\ \/ t = Decoder /\ pc[t] = "idle"
     \/ t = Detector /\ pc[t] = "query" /\ arg[t].q.kind = "saves"
  /\ Len(saveLog) < MaxSaves
  /\ CanLock
  /\ writer' = t
  /\ pc' = [pc EXCEPT ![t] = "Save"]
  /\ arg' = [arg EXCEPT ![t] = [NoArg EXCEPT !.m = m]]
  /\ UNCHANGED <<messages, firstHeight, readers, pending, cur, result,
                 saveLog, live, afterDelete>>
  /\ UNCHANGED <<ethVars, coreVars, codecVars, stopVars>>

\* Save lines 31-62 and the deferred Unlock
SaveBody(t) ==
  /\ pc[t] = "Save"
  /\ firstHeight' = SaveFirstHeight(firstHeight, arg[t].m)
  /\ messages' = SaveMessages(messages, arg[t].m)
  /\ writer' = "none"
  /\ pc' = [pc EXCEPT ![t] = "idle"]
  /\ arg' = [arg EXCEPT ![t] = NoArg]
  /\ saveLog' = Append(saveLog, arg[t].m.H)
  /\ live' = live \cup {arg[t].m}
  /\ afterDelete' = -1
  /\ UNCHANGED <<readers, pending, cur, result>>
  /\ UNCHANGED <<ethVars, coreVars, codecVars, stopVars>>

\* DeleteMsgsBeforeHeight line 71: ms.Lock()
DeleteLock(t, h) ==
  /\ t = Detector
  /\ pc[t] = "idle"
  /\ CanLock
  /\ writer' = t
  /\ pc' = [pc EXCEPT ![t] = "Delete"]
  /\ arg' = [arg EXCEPT ![t] = [NoArg EXCEPT !.h = h]]
  /\ UNCHANGED <<messages, firstHeight, readers, pending, cur, result,
                 saveLog, live, afterDelete>>
  /\ UNCHANGED <<ethVars, coreVars, codecVars, stopVars>>

\* DeleteMsgsBeforeHeight lines 73-78 and the deferred Unlock
DeleteBody(t) ==
  /\ pc[t] = "Delete"
  /\ messages' = DeleteMessages(messages, arg[t].h)
  /\ writer' = "none"
  /\ pc' = [pc EXCEPT ![t] = "idle"]
  /\ arg' = [arg EXCEPT ![t] = NoArg]
  /\ live' = {m \in live : m.H > arg[t].h}
  /\ firstHeight' = DeleteFirstHeight(firstHeight, arg[t].h)
  /\ afterDelete' = IF RetainedHeights(messages) # {} THEN arg[t].h ELSE -1
  /\ UNCHANGED <<readers, pending, cur, result, saveLog>>
  /\ UNCHANGED <<ethVars, coreVars, codecVars, stopVars>>

\* RemoveMsg line 83: ms.Lock()
RemoveLock(t, h, k) ==
  /\ t = Detector
  /\ pc[t] = "idle"
  /\ CanLock
  /\ writer' = t
  /\ pc' = [pc EXCEPT ![t] = "Remove"]
  /\ arg' = [arg EXCEPT ![t] = [NoArg EXCEPT !.h = h, !.k = k]]
  /\ UNCHANGED <<messages, firstHeight, readers, pending, cur, result,
                 saveLog, live, afterDelete>>
  /\ UNCHANGED <<ethVars, coreVars, codecVars, stopVars>>

\* RemoveMsg line 85 and the deferred Unlock
RemoveBody(t) ==
  /\ pc[t] = "Remove"
  /\ messages' = RemoveMessages(messages, arg[t].h, arg[t].k)
  /\ writer' = "none"
  /\ pc' = [pc EXCEPT ![t] = "idle"]
  /\ arg' = [arg EXCEPT ![t] = NoArg]
  /\ live' = {m \in live : ~(m.H = arg[t].h /\ KeyOf(m) = arg[t].k)}
  /\ afterDelete' = -1
  /\ UNCHANGED <<firstHeight, readers, pending, cur, result, saveLog>>
  /\ UNCHANGED <<ethVars, coreVars, codecVars, stopVars>>

\* FirstHeightBuffered line 65: ms.Lock()
FirstLock(t) ==
  /\ t = Detector
  /\ pc[t] = "idle"
  /\ CanLock
  /\ writer' = t
  /\ pc' = [pc EXCEPT ![t] = "First"]
  /\ UNCHANGED <<messages, firstHeight, readers, arg, pending, cur, result,
                 saveLog, live, afterDelete>>
  /\ UNCHANGED <<ethVars, coreVars, codecVars, stopVars>>

\* FirstHeightBuffered line 67: return ms.firstHeight, and the deferred Unlock
FirstReturn(t) ==
  /\ pc[t] = "First"
  /\ writer' = "none"
  /\ pc' = [pc EXCEPT ![t] = "idle"]
  /\ UNCHANGED <<messages, firstHeight, readers, arg, pending, cur, result,
                 saveLog, live, afterDelete>>
  /\ UNCHANGED <<ethVars, coreVars, codecVars, stopVars>>

\* Get lines 90-97: ms.RLock(), look the height up
GetRLock(t, h, q) ==
  /\ t = Detector
  /\ pc[t] = "idle"
  /\ CanRLock
  /\ readers' = readers \cup {t}
  /\ pc' = [pc EXCEPT ![t] = "Get"]
  /\ arg' = [arg EXCEPT ![t] = [NoArg EXCEPT !.h = h, !.q = q]]
  /\ pending' = PositionsAt(messages, h)
  /\ cur' = NoPos
  /\ result' = {}
  /\ UNCHANGED <<messages, firstHeight, writer, saveLog, live, afterDelete>>
  /\ UNCHANGED <<ethVars, coreVars, codecVars, stopVars>>

\* Get lines 99-103: the loops reach the next message (map iteration order
\* is not fixed) and call query(msg)
GetCallQuery(t, p) ==
  /\ pc[t] = "Get"
  /\ p \in pending
  /\ pending' = pending \ {p}
  /\ cur' = p
  /\ pc' = [pc EXCEPT ![t] = "query"]
  /\ UNCHANGED <<messages, firstHeight, writer, readers, arg, result,
                 saveLog, live, afterDelete>>
  /\ UNCHANGED <<ethVars, coreVars, codecVars, stopVars>>

\* Get lines 103-105: query(msg) returns, result = append(result, msg)
GetQueryReturn(t) ==
  /\ pc[t] = "query"
  /\ arg[t].q.kind # "saves"
  /\ result' = IF QueryHolds(arg[t].q, MsgAt(messages, arg[t].h, cur))
                 THEN result \cup {cur} ELSE result
  /\ cur' = NoPos
  /\ pc' = [pc EXCEPT ![t] = "Get"]
  /\ UNCHANGED <<messages, firstHeight, writer, readers, arg, pending,
                 saveLog, live, afterDelete>>
  /\ UNCHANGED <<ethVars, coreVars, codecVars, stopVars>>

\* Get lines 96 and 111: return result, and the deferred RUnlock
GetReturn(t) ==
  /\ pc[t] = "Get"
  /\ pending = {}
  /\ readers' = readers \ {t}
  /\ pc' = [pc EXCEPT ![t] = "idle"]
  /\ arg' = [arg EXCEPT ![t] = NoArg]
  /\ result' = {}
  /\ UNCHANGED <<messages, firstHeight, writer, pending, cur,
                 saveLog, live, afterDelete>>
  /\ UNCHANGED <<ethVars, coreVars, codecVars, stopVars>>

StoreNext ==
  \/ \E t \in Threads, m \in StoreMsgs : SaveLock(t, m)
  \/ \E t \in Threads : SaveBody(t)
  \/ \E t \in Threads, h \in DeleteHeights : DeleteLock(t, h)
  \/ \E t \in Threads : DeleteBody(t)
  \/ \E t \in Threads, h \in StoreHeights, k \in StoreKeys : RemoveLock(t, h, k)
  \/ \E t \in Threads : RemoveBody(t)
  \/ \E t \in Threads : FirstLock(t)
  \/ \E t \in Threads : FirstReturn(t)
  \/ \E t \in Threads, h \in StoreHeights : \E q \in Queries(h) : GetRLock(t, h, q)
  \/ \E t \in Threads : \E p \in pending : GetCallQuery(t, p)
  \/ \E t \in Threads : GetQueryReturn(t)
  \/ \E t \in Threads : GetReturn(t)

(***************************************************************************)
(* Core state machine: message cache                                       *)
(***************************************************************************)
EmptyCache == [msgs |-> {}, valid |-> {}, validValues |-> {}, values |-> {}]

\* msgCache.Message(hash): the payload was already added
CacheHas(cache, m) == m \in cache.msgs

\* msgCache.addMessage: a second distinct proposal of the same sender at the
\* same height and round is refused
DuplicateProposal(cache, m) ==
  /\ m.Code = msgProposal
  /\ \E x \in cache.msgs :
       /\ x.Code = msgProposal /\ x.H = m.H /\ x.R = m.R
       /\ x.Address = m.Address /\ x # m

AddMessage(cache, m) == [cache EXCEPT !.msgs = @ \cup {m}]

\* msgCache.addValue: the block of a proposal, by its hash
AddValue(cache, v) == [cache EXCEPT !.values = @ \cup {v}]

\* msgCache.setValid on the hash of a message; msgCache.isValid on the hash of
\* a value.  Message hashes and block hashes never coincide.
SetValidMsg(cache, m) == [cache EXCEPT !.valid = @ \cup {m}]
IsValid(cache, v) == v \in cache.validValues

\* msgCache.matchingProposal: the stored proposals with the height, round and
\* value of cm; a proposal matches itself
MatchingProposals(cache, cm) ==
  IF cm.Code = msgProposal
    THEN {cm}
    ELSE {x \in cache.msgs :
            x.Code = msgProposal /\ x.H = cm.H /\ x.R = cm.R /\ x.Value = cm.Value}

MatchChoices(cache, cm) ==
  IF MatchingProposals(cache, cm) = {} THEN {NoProposal}
  ELSE MatchingProposals(cache, cm)

\* voting power of the committee members with a vote of this code at (h, r)
\* that was set valid;
\* v = "any" stands for the nil value pointer (any value)
Voters(cache, code, h, v, r) ==
  {a \in Members :
     \E x \in cache.msgs :
       /\ x \in cache.valid
       /\ x.Code = code /\ x.H = h /\ x.R = r /\ x.Address = a
       /\ (v = "any" \/ x.Value = v)}

PrevoteQuorum(cache, h, v, r) ==
  Cardinality(Voters(cache, msgPrevote, h, v, r)) >= Quorum

PrecommitQuorum(cache, h, v, r) ==
  Cardinality(Voters(cache, msgPrecommit, h, v, r)) >= Quorum

\* the value of the proposal of the round's proposer, "none" without one
CurProposalValue(cache, h, r) ==
  LET ps == {x \in cache.msgs :
               x.Code = msgProposal /\ x.H = h /\ x.R = r
               /\ x.Address = Proposer(h, r)}
  IN IF ps = {} THEN "none" ELSE (CHOOSE x \in ps : TRUE).Value

(***************************************************************************)
(* Core state machine: votes, rounds and timeouts.  st is the record of    *)
(* the fields of core that one event handler reads and writes.             *)
(***************************************************************************)
voteForNil == TRUE
voteForValue == FALSE

\* sendPrevote / sendPrecommit: a vote for nil, or for the proposal of the
\* round; without a proposal nothing is broadcast
SendVote(st, cache, code, isNil) ==
  LET v == IF isNil THEN nilValue
           ELSE CurProposalValue(cache, st.height, st.round)
  IN IF v = "none" THEN st
     ELSE [st EXCEPT !.sent = @ \cup {Msg(code, st.height, st.round, v, -1, Self)}]

SendPrevote(st, cache, isNil) == SendVote(st, cache, msgPrevote, isNil)
SendPrecommit(st, cache, isNil) == SendVote(st, cache, msgPrecommit, isNil)

\* timeout.scheduleTimeout: after the delay the callback posts a TimeoutEvent
\* of the callback's step for (h, r)
Timer(kind, evStep, h, r) == [kind |-> kind, step |-> evStep, h |-> h, r |-> r]
Schedule(st, kind, evStep, h, r) ==
  [st EXCEPT !.timers = @ \cup {Timer(kind, evStep, h, r)},
             !.scheduled = @ (+) SetToBag({Timer(kind, evStep, h, r)})]

\* startRound
StartRound(st, r) ==
  LET st1 == [st EXCEPT !.round = r, !.step = propose, !.timers = {}]
  IN IF Proposer(st1.height, r) = Self
       THEN [st1 EXCEPT !.sent = @ \cup
               {Msg(msgProposal, st1.height, r,
                    IF st1.validValue = NilBlock THEN FreshBlock ELSE st1.validValue,
                    st1.validRound, Self)}]
       ELSE Schedule(st1, "propose", msgProposal, st1.height, r)

\* handleTimeoutPropose, handleTimeoutPrevote, handleTimeoutPrecommit
HandleTimeoutPropose(st, cache, ev) ==
  IF ev.h = st.height /\ ev.r = st.round
    THEN [SendPrevote(st, cache, voteForNil) EXCEPT !.step = prevote]
    ELSE st

HandleTimeoutPrevote(st, cache, ev) ==
  IF ev.h = st.height /\ ev.r = st.round
    THEN [SendPrecommit(st, cache, voteForNil) EXCEPT !.step = precommit]
    ELSE st

HandleTimeoutPrecommit(st, ev) ==
  IF ev.h = st.height /\ ev.r = st.round THEN StartRound(st, st.round + 1) ELSE st

\* commit(block, round)
Commit(st, v, r) ==
  [st EXCEPT !.committed = @ \cup {[H |-> st.height, Value |-> v, Round |-> r]}]

(***************************************************************************)
(* Core state machine: checkUponConditions, one operator per upon rule.    *)
(* r and h are the round and height read at entry, cm the consensus        *)
(* message, p the matching proposal (NoProposal for nil).                  *)
(***************************************************************************)
InCodes(t, codes) == t \in codes

\* Line 22.  Go reads the condition as (isValid && lockedRound == -1) ||
\* lockedValue.Hash() == value; Hash() on the nil block panics.
Line22NoValidity(st, cache, cm, r) ==
  IF st.panicked THEN st
  ELSE IF InCodes(cm.Code, {msgProposal}) /\ cm.R = r /\ cm.ValidRound = -1
          /\ st.step = propose
    THEN IF st.lockedRound = -1
           THEN SendPrevote(st, cache, voteForValue)
           ELSE IF st.lockedValue = NilBlock
             THEN [st EXCEPT !.panicked = TRUE]
             ELSE IF st.lockedValue = cm.Value
               THEN SendPrevote(st, cache, voteForValue)
               ELSE SendPrevote(st, cache, voteForNil)
    ELSE st

Line22(st, cache, cm, r) ==
  IF st.panicked THEN st
  ELSE IF InCodes(cm.Code, {msgProposal}) /\ cm.R = r /\ cm.ValidRound = -1
          /\ st.step = propose
    THEN IF IsValid(cache, cm.Value) /\ st.lockedRound = -1
           THEN SendPrevote(st, cache, voteForValue)
           ELSE IF st.lockedValue = NilBlock
             THEN [st EXCEPT !.panicked = TRUE]
             ELSE IF st.lockedValue = cm.Value
               THEN SendPrevote(st, cache, voteForValue)
               ELSE SendPrevote(st, cache, voteForNil)
    ELSE st

\* Line 28.  isValid is tested first, so lockedValue.Hash() is reached only
\* for a valid value with lockedRound > validRound, when a block is locked.
Line28(st, cache, cm, p, r, h) ==
  IF st.panicked THEN st
  ELSE IF InCodes(cm.Code, {msgProposal, msgPrevote}) /\ p # NoProposal /\ p.R = r
          /\ PrevoteQuorum(cache, h, p.Value, p.ValidRound)
          /\ st.step = propose /\ (p.ValidRound >= 0 /\ p.ValidRound < r)
    THEN IF IsValid(cache, p.Value)
            /\ (st.lockedRound <= p.ValidRound \/ st.lockedValue = p.Value)
           THEN SendPrevote(st, cache, voteForValue)
           ELSE SendPrevote(st, cache, voteForNil)
    ELSE st

\* Line 34: the prevote timer is scheduled with the callback onTimeoutPrecommit
Line34(st, cache, cm, r, h, l34) ==
  IF st.panicked THEN st
  ELSE IF InCodes(cm.Code, {msgPrevote}) /\ cm.R = r
          /\ PrevoteQuorum(cache, h, "any", r) /\ st.step = prevote /\ ~l34
    THEN Schedule(st, "prevote", msgPrecommit, h, r)
    ELSE st

\* Line 36
Line36Misplaced(st, cache, cm, p, r, h, l36) ==
  IF st.panicked THEN st
  ELSE LET st1 ==
         IF InCodes(cm.Code, {msgProposal, msgPrevote}) /\ p # NoProposal /\ p.R = r
            /\ PrevoteQuorum(cache, h, p.Value, r) /\ IsValid(cache, p.Value)
            /\ st.step >= prevote /\ ~l36
           THEN LET st2 == IF st.step = prevote
                             THEN [SendPrecommit(
                                     [st EXCEPT !.lockedValue = p.Value,
                                                !.lockedRound = r],
                                     cache, voteForValue)
                                   EXCEPT !.step = precommit]
                             ELSE st
                IN [st2 EXCEPT !.validValue = p.Value]
           ELSE st
       IN [st1 EXCEPT !.validRound = r]

\* Line 36 with the lock taken at step precommit as well
Line36LockAlways(st, cache, cm, p, r, h, l36) ==
  IF st.panicked THEN st
  ELSE IF InCodes(cm.Code, {msgProposal, msgPrevote}) /\ p # NoProposal /\ p.R = r
          /\ PrevoteQuorum(cache, h, p.Value, r) /\ IsValid(cache, p.Value)
          /\ st.step >= prevote /\ ~l36
    THEN LET st1 == [SendPrecommit(
                       [st EXCEPT !.lockedValue = p.Value, !.lockedRound = r],
                       cache, voteForValue)
                     EXCEPT !.step = precommit]
         IN [st1 EXCEPT !.validValue = p.Value, !.validRound = r]
    ELSE st

Line36(st, cache, cm, p, r, h, l36) ==
  IF st.panicked THEN st
  ELSE IF InCodes(cm.Code, {msgProposal, msgPrevote}) /\ p # NoProposal /\ p.R = r
          /\ PrevoteQuorum(cache, h, p.Value, r) /\ IsValid(cache, p.Value)
          /\ st.step >= prevote /\ ~l36
    THEN LET st1 == IF st.step = prevote
                      THEN [SendPrecommit(
                              [st EXCEPT !.lockedValue = p.Value,
                                         !.lockedRound = r],
                              cache, voteForValue)
                            EXCEPT !.step = precommit]
                      ELSE st
         IN [st1 EXCEPT !.validValue = p.Value, !.validRound = r]
    ELSE st

\* Line 44: the precommit is sent with voteForValue
Line44AnyRound(st, cache, cm, r, h) ==
  IF st.panicked THEN st
  ELSE IF InCodes(cm.Code, {msgPrevote})
          /\ PrevoteQuorum(cache, h, nilValue, cm.R) /\ st.step = prevote
    THEN [SendPrecommit(st, cache, voteForValue) EXCEPT !.step = precommit]
    ELSE st

Line44(st, cache, cm, r, h) ==
  IF st.panicked THEN st
  ELSE IF InCodes(cm.Code, {msgPrevote}) /\ cm.R = r
          /\ PrevoteQuorum(cache, h, nilValue, r) /\ st.step = prevote
    THEN [SendPrecommit(st, cache, voteForValue) EXCEPT !.step = precommit]
    ELSE st

\* Line 47
Line47(st, cache, cm, r, h, l47) ==
  IF st.panicked THEN st
  ELSE IF InCodes(cm.Code, {msgPrecommit}) /\ cm.R = r
          /\ PrecommitQuorum(cache, h, "any", r) /\ ~l47
    THEN Schedule(st, "precommit", msgPrecommit, h, r)
    ELSE st

\* Line 49: commit, setHeight(block.Number() + 1), reset of the lock and of the
\* valid value; no round is started
Line49NoValidity(st, cache, cm, p, h) ==
  IF st.panicked THEN st
  ELSE IF InCodes(cm.Code, {msgProposal, msgPrecommit}) /\ p # NoProposal
          /\ PrecommitQuorum(cache, h, p.Value, p.R)
    THEN [Commit(st, p.Value, p.R) EXCEPT
            !.height = p.H + 1,
            !.lockedRound = -1, !.lockedValue = NilBlock,
            !.validRound = -1, !.validValue = NilBlock]
    ELSE st

Line49(st, cache, cm, p, h) ==
  IF st.panicked THEN st
  ELSE IF InCodes(cm.Code, {msgProposal, msgPrecommit}) /\ p # NoProposal
          /\ PrecommitQuorum(cache, h, p.Value, p.R)
    THEN IF IsValid(cache, p.Value)
           THEN [Commit(st, p.Value, p.R) EXCEPT
                   !.height = p.H + 1,
                   !.lockedRound = -1, !.lockedValue = NilBlock,
                   !.validRound = -1, !.validValue = NilBlock]
           ELSE st
    ELSE st

\* msgCache.fail(round, lastHeader): messages of the round from distinct
\* senders with at least F + 1 of the voting power
FaultThreshold == (TotalPower + 2) \div 3
Fail(cache, r, h) ==
  Cardinality({a \in Members :
                 \E x \in cache.msgs : x.H = h /\ x.R = r /\ x.Address = a})
    >= FaultThreshold + 1

\* Line 55 starts no round: the call is commented out and the body is empty
Line55(st, cache, cm, r, h) ==
  IF st.panicked THEN st
  ELSE IF cm.R > r /\ Fail(cache, cm.R, h)
    THEN st
    ELSE st

CheckUponConditions(st, cache, cm, p, l34, l36, l47) ==
  LET r == st.round
      h == st.height
      a == Line22(st, cache, cm, r)
      b == Line28(a, cache, cm, p, r, h)
      c == Line34(b, cache, cm, r, h, l34)
      d == Line36(c, cache, cm, p, r, h, l36)
      e == Line44(d, cache, cm, r, h)
      f == Line47(e, cache, cm, r, h, l47)
      g == Line49(f, cache, cm, p, h)
  IN Line55(g, cache, cm, r, h)

(***************************************************************************)
(* Core state machine: handleMsg and handleCurrentHeightMessage            *)
(***************************************************************************)
\* the error handleMsg returns before the height check, "" for none
HandleMsgErrorNoSeal(cache, m) ==
  CASE DuplicateProposal(cache, m) -> "errDuplicateProposal"
    [] OTHER -> ""

HandleMsgErrorNoDuplicate(cache, m) ==
  CASE m.Code = msgPrecommit /\ ~m.SealOk -> "errCommittedSeal"
    [] OTHER -> ""

HandleMsgError(cache, m) ==
  CASE m.Code = msgPrecommit /\ ~m.SealOk -> "errCommittedSeal"
    [] DuplicateProposal(cache, m) -> "errDuplicateProposal"
    [] OTHER -> ""

\* the error handleCurrentHeightMessage returns before the upon rules
CurrentHeightError(m, cm) ==
  CASE m.Address \notin Members -> "errNotCommitteeMember"
    [] m.Signer # m.Address -> "errSignatureMismatch"
    [] m.Code = msgProposal /\ Proposer(cm.H, cm.R) # m.Address -> "errNotFromProposer"
    [] OTHER -> ""

\* the cache after handleCurrentHeightMessage's switch: votes are set valid,
\* the proposal branch returns or does nothing
CacheAfterChecks(cache, m) ==
  IF m.Code = msgProposal THEN cache ELSE SetValidMsg(cache, m)

CoreState ==
  [height |-> height, round |-> round, step |-> step,
   lockedValue |-> lockedValue, lockedRound |-> lockedRound,
   validValue |-> validValue, validRound |-> validRound,
   timers |-> timers, scheduled |-> scheduled, sent |-> sent,
   committed |-> committed,
   panicked |-> FALSE]

SetCoreState(st) ==
  /\ height' = st.height
  /\ round' = st.round
  /\ step' = st.step
  /\ lockedValue' = st.lockedValue
  /\ lockedRound' = st.lockedRound
  /\ validValue' = st.validValue
  /\ validRound' = st.validRound
  /\ timers' = st.timers
  /\ scheduled' = st.scheduled
  /\ sent' = st.sent
  /\ committed' = st.committed
  /\ running' = IF st.panicked THEN "panicked" ELSE running

CoreInit ==
  /\ height = 0 /\ round = 0 /\ step = propose
  /\ lockedValue = NilBlock /\ lockedRound = -1
  /\ validValue = NilBlock /\ validRound = -1
  /\ line34Executed = FALSE /\ line36Executed = FALSE /\ line47Executed = FALSE
  /\ msgCache = EmptyCache /\ timers = {} /\ scheduled = EmptyBag
  /\ sent = {} /\ committed = {}
  /\ running = "new"
  /\ gossiped = {} /\ failed = {} /\ evaluated = {}
  /\ chainHead = StartHeight - 1 /\ commitPending = FALSE

\* Start and the first statement of mainEventLoop: setHeight, startRound(0)
Start ==
  /\ running = "new"
  /\ running' = "running"
  /\ LET st == StartRound([CoreState EXCEPT !.height = chainHead + 1], 0)
     IN /\ height' = st.height /\ round' = st.round /\ step' = st.step
        /\ timers' = st.timers /\ scheduled' = st.scheduled
        /\ sent' = st.sent
  /\ UNCHANGED <<lockedValue, lockedRound, validValue, validRound,
                 line34Executed, line36Executed, line47Executed, msgCache,
                 committed, gossiped, failed, evaluated, chainHead,
                 commitPending>>
  /\ UNCHANGED <<ethVars, storeVars, codecVars, stopVars>>

\* handleMsg line 351: the message is for the height the node is at
IsCurrentHeightAny(m, h) == TRUE

IsCurrentHeight(m, h) == m.H = h

\* the cache after the addMessage and addValue of handleMsg
CacheAfterAdd(cache, m) ==
  IF m.Code = msgProposal
    THEN AddValue(AddMessage(cache, m), m.Value)
    ELSE AddMessage(cache, m)

\* mainEventLoop, MessageEvent: handleMsg(payload); an error is logged, and
\* the payload is gossiped when handleMsg returns nil
HandleMsg(m) ==
  /\ running = "running"
  /\ UNCHANGED <<line34Executed, line36Executed, line47Executed, chainHead,
                 commitPending>>
  /\ IF CacheHas(msgCache, m)
       THEN /\ gossiped' = gossiped \cup {m}
            /\ UNCHANGED <<height, round, step, lockedValue, lockedRound,
                           validValue, validRound, msgCache, timers, scheduled,
                           sent,
                           committed, running, failed, evaluated>>
       ELSE IF HandleMsgError(msgCache, m) # ""
         THEN /\ failed' = failed \cup {m}
              /\ UNCHANGED <<height, round, step, lockedValue, lockedRound,
                             validValue, validRound, msgCache, timers, scheduled,
                             sent,
                             committed, running, gossiped, evaluated>>
         ELSE LET added == CacheAfterAdd(msgCache, m)
              IN IF ~IsCurrentHeight(m, height)
                   THEN /\ msgCache' = added
                        /\ gossiped' = gossiped \cup {m}
                        /\ UNCHANGED <<height, round, step, lockedValue,
                                       lockedRound, validValue, validRound,
                                       timers, scheduled,
                                       sent, committed, running,
                                       failed, evaluated>>
                   ELSE IF CurrentHeightError(m, m) # ""
                     THEN /\ msgCache' = added
                          /\ failed' = failed \cup {m}
                          /\ UNCHANGED <<height, round, step, lockedValue,
                                         lockedRound, validValue, validRound,
                                         timers, scheduled,
                                         sent, committed, running,
                                         gossiped, evaluated>>
                     ELSE LET cache == CacheAfterChecks(added, m)
                          IN /\ msgCache' = cache
                             /\ evaluated' = evaluated \cup {m}
                             /\ failed' = failed
                             /\ \E p \in MatchChoices(cache, m) :
                                  \E st \in {CheckUponConditions(
                                      CoreState, cache, m, p, line34Executed,
                                      line36Executed, line47Executed)} :
                                    /\ SetCoreState(st)
                                    /\ gossiped' = IF st.panicked THEN gossiped
                                                   ELSE gossiped \cup {m}
  /\ UNCHANGED <<ethVars, storeVars, codecVars, stopVars>>

\* mainEventLoop, TimeoutEvent: a scheduled timer expires and its event is
\* dispatched on the step it carries
HandleTimeout(ev) ==
  /\ running = "running"
  /\ ev \in timers
  /\ ev.step = msgPrecommit /\ ev.h = height /\ ev.r = round
       => round < MaxRoundReached
  /\ LET st0 == [CoreState EXCEPT !.timers = @ \ {ev}]
         st == CASE ev.step = msgProposal -> HandleTimeoutPropose(st0, msgCache, ev)
                 [] ev.step = msgPrevote -> HandleTimeoutPrevote(st0, msgCache, ev)
                 [] ev.step = msgPrecommit -> HandleTimeoutPrecommit(st0, ev)
     IN SetCoreState(st)
  /\ UNCHANGED <<line34Executed, line36Executed, line47Executed, msgCache,
                 gossiped, failed, evaluated, chainHead, commitPending>>
  /\ UNCHANGED <<ethVars, storeVars, codecVars, stopVars>>

\* the execution collaborator finalises the block of the current height
\* (committed by this node or synced from its peers) and posts a CommitEvent
BackendCommit ==
  /\ running = "running"
  /\ ~commitPending
  /\ chainHead + 1 = height
  /\ chainHead < StartHeight - 1 + MaxCommits
  /\ chainHead' = chainHead + 1
  /\ commitPending' = TRUE
  /\ UNCHANGED <<height, round, step, lockedValue, lockedRound, validValue,
                 validRound, line34Executed, line36Executed, line47Executed,
                 msgCache, timers, scheduled,
                 sent, committed, running, gossiped, failed,
                 evaluated>>
  /\ UNCHANGED <<ethVars, storeVars, codecVars, stopVars>>

\* mainEventLoop, CommitEvent: handleCommit moves to the height after the
\* last committed block with a fresh Round State and starts round 0
HandleCommit ==
  /\ running = "running"
  /\ commitPending
  /\ commitPending' = FALSE
  /\ LET st0 == [CoreState EXCEPT !.height = chainHead + 1,
                                  !.lockedValue = NilBlock, !.lockedRound = -1,
                                  !.validValue = NilBlock, !.validRound = -1]
     IN SetCoreState(StartRound(st0, 0))
  /\ line34Executed' = FALSE /\ line36Executed' = FALSE
  /\ line47Executed' = FALSE
  /\ UNCHANGED <<msgCache, gossiped, failed, evaluated, chainHead>>
  /\ UNCHANGED <<ethVars, storeVars, codecVars, stopVars>>

CoreNext ==
  \/ Start
  \/ \E m \in EnvMsgs \cup sent : HandleMsg(m)
  \/ \E ev \in timers : HandleTimeout(ev)

(***************************************************************************)
(* Codec: actions                                                          *)
(***************************************************************************)
CodecInit ==
  /\ codecPc = "idle"
  /\ codecIn = NoCodecValue
  /\ wire = NoCodecValue
  /\ codecOut = NoCodecValue

\* a proposal is encoded for broadcast
EncodeProposalCall(p) ==
  /\ codecPc = "idle"
  /\ codecIn' = p
  /\ wire' = EncodeProposal(p)
  /\ codecPc' = IF EncodeProposal(p).kind = "error" THEN "decoded" ELSE "wire"
  /\ codecOut' = NoCodecValue
  /\ UNCHANGED <<ethVars, storeVars, coreVars, stopVars>>

\* a vote is encoded for broadcast
EncodeVoteCall(v) ==
  /\ codecPc = "idle"
  /\ codecIn' = v
  /\ wire' = EncodeVote(v)
  /\ codecPc' = "wire"
  /\ codecOut' = NoCodecValue
  /\ UNCHANGED <<ethVars, storeVars, coreVars, stopVars>>

\* a list arrives from the network
ReceiveWire(w) ==
  /\ codecPc = "idle"
  /\ codecIn' = NoCodecValue
  /\ wire' = w
  /\ codecPc' = "wire"
  /\ codecOut' = NoCodecValue
  /\ UNCHANGED <<ethVars, storeVars, coreVars, stopVars>>

DecodeProposalCall ==
  /\ codecPc = "wire" /\ wire.kind = "proposalWire"
  /\ codecOut' = DecodeProposal(wire)
  /\ codecPc' = "decoded"
  /\ UNCHANGED <<codecIn, wire>>
  /\ UNCHANGED <<ethVars, storeVars, coreVars, stopVars>>

DecodeVoteCall ==
  /\ codecPc = "wire" /\ wire.kind = "voteWire"
  /\ codecOut' = DecodeVote(wire)
  /\ codecPc' = "decoded"
  /\ UNCHANGED <<codecIn, wire>>
  /\ UNCHANGED <<ethVars, storeVars, coreVars, stopVars>>

\* the next message
CodecDone ==
  /\ codecPc = "decoded"
  /\ codecPc' = "idle"
  /\ codecIn' = NoCodecValue
  /\ wire' = NoCodecValue
  /\ codecOut' = NoCodecValue
  /\ UNCHANGED <<ethVars, storeVars, coreVars, stopVars>>

CodecNext ==
  \/ codecPc = "idle" /\ \E p \in CodecProposals : EncodeProposalCall(p)
  \/ codecPc = "idle" /\ \E v \in CodecVotes : EncodeVoteCall(v)
  \/ codecPc = "idle" /\ \E w \in NetProposalWires \cup NetVoteWires : ReceiveWire(w)
  \/ DecodeProposalCall
  \/ DecodeVoteCall
  \/ CodecDone

(***************************************************************************)
(* Accountability: typedMessage and Proof                                  *)
(***************************************************************************)
\* message.ProposalCode .. message.LightProposalCode
ProposalCode == 0
PrevoteCode == 1
PrecommitCode == 2
LightProposalCode == 3

\* a message of the message package: its code and its fields.  A vote is
\* <<height, round, value, sender>>, a proposal and a light proposal are
\* <<height, round, validRound, value, sender>>
AccMessage(code, body) == [Code |-> code, Body |-> body]
\* a nil message.Message
NoMessage == [Code |-> -1, Body |-> <<>>]

\* typedMessage{m}: Code() is promoted from the embedded message
TypedMessage(m) == [kind |-> "typedMessage", Message |-> m]

\* rlp of an unsigned integer below 256: the empty string for 0, else the byte
EncUint(n) == IF n = 0 THEN <<>> ELSE <<n>>
\* the integer of a byte string; a leading zero byte is not canonical
CanonicalUint(b) == Len(b) = 0 \/ (Len(b) = 1 /\ b[1] # 0)
DecUint(b) == IF Len(b) = 0 THEN 0 ELSE b[1]

\* the list a message writes for itself: validRound = -1 travels as an
\* is-nil flag beside a zero
EncodePayload(m) ==
  IF m.Code \in {PrevoteCode, PrecommitCode} /\ Len(m.Body) = 4
    THEN <<EncUint(m.Body[1]), EncUint(m.Body[2]), m.Body[3], m.Body[4]>>
    ELSE IF m.Code \in {ProposalCode, LightProposalCode} /\ Len(m.Body) = 5
      THEN <<EncUint(m.Body[1]), EncUint(m.Body[2]),
             EncUint(IF m.Body[3] = -1 THEN 0 ELSE m.Body[3]), m.Body[3] = -1,
             m.Body[4], m.Body[5]>>
      ELSE m.Body

\* stream.Decode(p) for p a *Prevote or *Precommit, and for p a *LightProposal
DecodeVotePayload(code, w) ==
  IF Len(w) # 4 THEN CodecError("rlp: input list has wrong size")
  ELSE IF ~CanonicalUint(w[1]) \/ ~CanonicalUint(w[2])
    THEN CodecError("rlp: non-canonical integer")
    ELSE AccMessage(code, <<DecUint(w[1]), DecUint(w[2]), w[3], w[4]>>)
DecodeLightPayload(w) ==
  IF Len(w) # 6 THEN CodecError("rlp: input list has wrong size")
  ELSE IF ~CanonicalUint(w[1]) \/ ~CanonicalUint(w[2]) \/ ~CanonicalUint(w[3])
    THEN CodecError("rlp: non-canonical integer")
    ELSE IF w[4] /\ DecUint(w[3]) # 0
      THEN CodecError("bad proposal vRound with isValidround nil")
      ELSE AccMessage(LightProposalCode,
                      <<DecUint(w[1]), DecUint(w[2]),
                        IF w[4] THEN -1 ELSE DecUint(w[3]), w[5], w[6]>>)

\* the list [code, message]; extra says that more items follow the message
TypedWire(tag, payload, extra) ==
  [kind |-> "typedWire", tag |-> tag, payload |-> payload, extra |-> extra]

\* typedMessage.EncodeRLP
EncodeTyped(t) ==
  TypedWire(EncUint(t.Message.Code), EncodePayload(t.Message), FALSE)

\* stream.Decode returned an error
IsCodecError(p) == "err" \in DOMAIN p

\* what DecodeRLP returns and what it leaves in t.Message
TypedResult(e, m) == [kind |-> "typedResult", err |-> e, Message |-> m]
noError == "nil"
errUnexpectedCode == "unexpected message code"
ErrExpectedString == "rlp: expected String or Byte"
errListEnd == "rlp: input list has too many elements"

\* DecodeRLP with the precommit case allocating a Prevote
DecodeTypedSwapped(w) ==
  IF Len(w.tag) = 0 THEN TypedResult(ErrExpectedString, NoMessage)
  ELSE IF w.tag[1] \in {PrevoteCode, PrecommitCode}
    THEN LET p == DecodeVotePayload(PrevoteCode, w.payload)
         IN  IF IsCodecError(p) THEN TypedResult(p.err, NoMessage)
             ELSE TypedResult(IF w.extra THEN errListEnd ELSE noError, p)
  ELSE IF w.tag[1] = LightProposalCode
    THEN LET p == DecodeLightPayload(w.payload)
         IN  IF IsCodecError(p) THEN TypedResult(p.err, NoMessage)
             ELSE TypedResult(IF w.extra THEN errListEnd ELSE noError, p)
  ELSE TypedResult(errUnexpectedCode, NoMessage)

\* typedMessage.DecodeRLP into a typedMessage whose Message is nil
DecodeTypedPayload(w, p) ==
  IF IsCodecError(p) THEN TypedResult(p.err, NoMessage)
  ELSE TypedResult(IF w.extra THEN errListEnd ELSE noError, p)
DecodeTyped(w) ==
  IF Len(w.tag) = 0 THEN TypedResult(ErrExpectedString, NoMessage)
  ELSE IF w.tag[1] = PrevoteCode
    THEN DecodeTypedPayload(w, DecodeVotePayload(PrevoteCode, w.payload))
  ELSE IF w.tag[1] = PrecommitCode
    THEN DecodeTypedPayload(w, DecodeVotePayload(PrecommitCode, w.payload))
  ELSE IF w.tag[1] = LightProposalCode
    THEN DecodeTypedPayload(w, DecodeLightPayload(w.payload))
  ELSE TypedResult(errUnexpectedCode, NoMessage)

\* Proof{Type, Rule, Message, Evidences}
Proof(type, rule, m, evidences) ==
  [kind |-> "proof", Type |-> type, Rule |-> rule, Message |-> m,
   Evidences |-> evidences]

\* EncodeRLP with the evidences appended in reverse
EncodeProofReversed(p) ==
  [kind |-> "proofWire", Type |-> EncUint(p.Type), Rule |-> EncUint(p.Rule),
   Message |-> EncodeTyped(TypedMessage(p.Message)),
   Evidences |->
     [i \in 1 .. Len(p.Evidences) |->
        EncodeTyped(TypedMessage(p.Evidences[Len(p.Evidences) + 1 - i]))]]

\* Proof.EncodeRLP: the encodedProof list
EncodeProof(p) ==
  [kind |-> "proofWire", Type |-> EncUint(p.Type), Rule |-> EncUint(p.Rule),
   Message |-> EncodeTyped(TypedMessage(p.Message)),
   Evidences |->
     [i \in 1 .. Len(p.Evidences) |-> EncodeTyped(TypedMessage(p.Evidences[i]))]]

\* Proof.DecodeRLP: stream.Decode(&encoded) fails with the first error of a
\* field; the decoded typedMessage values themselves become Message and
\* Evidences
DecodeProof(w) ==
  LET msg == DecodeTyped(w.Message)
      evs == [i \in 1 .. Len(w.Evidences) |-> DecodeTyped(w.Evidences[i])]
      bad == {i \in 1 .. Len(w.Evidences) : evs[i].err # noError}
  IN  IF ~CanonicalUint(w.Type) \/ ~CanonicalUint(w.Rule)
        THEN CodecError("rlp: non-canonical integer")
      ELSE IF msg.err # noError THEN CodecError(msg.err)
      ELSE IF bad # {}
        THEN CodecError(evs[CHOOSE i \in bad : \A j \in bad : i <= j].err)
      ELSE Proof(DecUint(w.Type), DecUint(w.Rule), TypedMessage(msg.Message),
                 [i \in 1 .. Len(w.Evidences) |-> TypedMessage(evs[i].Message)])

\* the longest evidence list of the proofs that are encoded
MaxEvidences == 2
ProofHeight == 13
\* Misbehaviour, Accusation, Innocence
ProofTypes == {0, 1, 2}
ProofRules == {0, 1}
ProofMsgs ==
  {AccMessage(ProposalCode, <<ProofHeight, 0, -1, "B", "V1">>),
   AccMessage(PrevoteCode, <<ProofHeight, 0, "B", "V2">>),
   AccMessage(PrecommitCode, <<ProofHeight, 1, "nil", "V4">>),
   AccMessage(LightProposalCode, <<ProofHeight, 0, -1, "B", "V1">>),
   AccMessage(LightProposalCode, <<ProofHeight, 1, 0, "B", "V2">>)}
EvidenceLists ==
  UNION {[1 .. n -> ProofMsgs] : n \in 0 .. MaxEvidences}
Proofs ==
  {Proof(t, r, m, e) :
     t \in ProofTypes, r \in ProofRules, m \in ProofMsgs, e \in EvidenceLists}

\* message.Fake values: any code but ProposalCode, fields of no message kind
FuzzedCodes == {PrevoteCode, LightProposalCode, 4, 255}
FuzzedMessages == {AccMessage(c, <<"fuzz">>) : c \in FuzzedCodes}

\* the [code, message] lists read from the network
NetTags == {<<>>, <<0>>, <<1>>, <<2>>, <<3>>, <<4>>, <<255>>}
NetPayloads ==
  {EncodePayload(m) : m \in ProofMsgs}
    \cup {<<<<0>>, <<>>, "B", "V2">>,
          <<EncUint(ProofHeight), <<>>, <<1>>, TRUE, "B", "V1">>}
NetTypedWires ==
  {TypedWire(t, p, x) : t \in NetTags, p \in NetPayloads, x \in BOOLEAN}

\* a message of an accountability event is encoded
TypedEncodeCall(m) ==
  /\ codecPc = "idle"
  /\ codecIn' = TypedMessage(m)
  /\ wire' = EncodeTyped(TypedMessage(m))
  /\ codecPc' = "wire"
  /\ codecOut' = NoCodecValue
  /\ UNCHANGED <<ethVars, storeVars, coreVars, stopVars>>

\* a [code, message] list arrives from the network
TypedReceiveWire(w) ==
  /\ codecPc = "idle"
  /\ codecIn' = NoCodecValue
  /\ wire' = w
  /\ codecPc' = "wire"
  /\ codecOut' = NoCodecValue
  /\ UNCHANGED <<ethVars, storeVars, coreVars, stopVars>>

TypedDecodeCall ==
  /\ codecPc = "wire" /\ wire.kind = "typedWire"
  /\ codecOut' = DecodeTyped(wire)
  /\ codecPc' = "decoded"
  /\ UNCHANGED <<codecIn, wire>>
  /\ UNCHANGED <<ethVars, storeVars, coreVars, stopVars>>

ProofEncodeCall(p) ==
  /\ codecPc = "idle"
  /\ codecIn' = p
  /\ wire' = EncodeProof(p)
  /\ codecPc' = "wire"
  /\ codecOut' = NoCodecValue
  /\ UNCHANGED <<ethVars, storeVars, coreVars, stopVars>>

ProofDecodeCall ==
  /\ codecPc = "wire" /\ wire.kind = "proofWire"
  /\ codecOut' = DecodeProof(wire)
  /\ codecPc' = "decoded"
  /\ UNCHANGED <<codecIn, wire>>
  /\ UNCHANGED <<ethVars, storeVars, coreVars, stopVars>>

AccountabilityNext ==
  \/ codecPc = "idle" /\ \E m \in ProofMsgs \cup FuzzedMessages : TypedEncodeCall(m)
  \/ codecPc = "idle" /\ \E w \in NetTypedWires : TypedReceiveWire(w)
  \/ TypedDecodeCall
  \/ codecPc = "idle" /\ \E p \in Proofs : ProofEncodeCall(p)
  \/ ProofDecodeCall
  \/ CodecDone

(***************************************************************************)
(* Shutdown: actions                                                       *)
(***************************************************************************)
StopInit ==
  /\ stopPc = "idle"
  /\ ctxDone = FALSE
  /\ subscribed = FALSE
  /\ workerPc = [w \in Workers |-> "none"]
  /\ signals = [w \in Workers |-> 0]
  /\ received = 0

\* an unrecovered panic of a goroutine ends the process
ProcessAlive == running # "panicked"

\* core.Start: subscribeEvents, setHeight, go handleNewUnminedBlockEvent,
\* go mainEventLoop
StartCall ==
  /\ running = "new"
  /\ workerPc[MainLoop] = "none"
  /\ subscribed' = TRUE
  /\ height' = chainHead + 1
  /\ workerPc' = [workerPc EXCEPT ![UnminedLoop] = "select",
                                  ![MainLoop] = "startRound"]
  /\ UNCHANGED <<round, step, lockedValue, lockedRound, validValue,
                 validRound, line34Executed, line36Executed, line47Executed,
                 msgCache, timers, scheduled,
                 sent, committed, running, gossiped, failed,
                 evaluated, chainHead, commitPending, stopPc, ctxDone,
                 signals, received>>
  /\ UNCHANGED <<ethVars, storeVars, codecVars>>

\* mainEventLoop lines 124-127: startRound(ctx, 0), go syncLoop
MainStartRound ==
  /\ workerPc[MainLoop] = "startRound"
  /\ running = "new"
  /\ running' = "running"
  /\ LET st == StartRound(CoreState, 0)
     IN /\ height' = st.height /\ round' = st.round /\ step' = st.step
        /\ timers' = st.timers /\ scheduled' = st.scheduled
        /\ sent' = st.sent
  /\ workerPc' = [workerPc EXCEPT ![MainLoop] = "select",
                                  ![SyncLoop] = "select"]
  /\ UNCHANGED <<lockedValue, lockedRound, validValue, validRound,
                 line34Executed, line36Executed, line47Executed, msgCache,
                 committed, gossiped, failed, evaluated, chainHead,
                 commitPending, stopPc, ctxDone, subscribed, signals,
                 received>>
  /\ UNCHANGED <<ethVars, storeVars, codecVars>>

\* mainEventLoop, the select takes a message event or a timeout event
MainHandleMsg(m) ==
  /\ workerPc[MainLoop] = "select"
  /\ subscribed
  /\ HandleMsg(m)

MainHandleTimeout(ev) ==
  /\ workerPc[MainLoop] = "select"
  /\ subscribed
  /\ HandleTimeout(ev)

\* handleNewUnminedBlockEvent and syncLoop: the select takes an event (for
\* syncLoop also the 10 s timer), and the handler returns to the select
WorkerReceive(w) ==
  /\ ProcessAlive
  /\ w \in {UnminedLoop, SyncLoop}
  /\ workerPc[w] = "select"
  /\ subscribed
  /\ workerPc' = [workerPc EXCEPT ![w] = "handling"]
  /\ UNCHANGED <<stopPc, ctxDone, subscribed, signals, received>>
  /\ UNCHANGED <<ethVars, storeVars, coreVars, codecVars>>

WorkerHandled(w) ==
  /\ ProcessAlive
  /\ workerPc[w] = "handling"
  /\ workerPc' = [workerPc EXCEPT ![w] = "select"]
  /\ UNCHANGED <<stopPc, ctxDone, subscribed, signals, received>>
  /\ UNCHANGED <<ethVars, storeVars, coreVars, codecVars>>

\* the select takes ctx.Done() or a closed subscription channel: break
\* eventLoop, and the worker reaches c.stopped <- struct{}{}
WorkerBreak(w) ==
  /\ ProcessAlive
  /\ workerPc[w] = "select"
  /\ ctxDone \/ ~subscribed
  /\ workerPc' = [workerPc EXCEPT ![w] = "send"]
  /\ UNCHANGED <<stopPc, ctxDone, subscribed, signals, received>>
  /\ UNCHANGED <<ethVars, storeVars, coreVars, codecVars>>

\* core.Stop lines 57-59: the three stopTimer calls
StopTimers ==
  /\ ProcessAlive
  /\ stopPc = "idle"
  /\ workerPc[MainLoop] # "none"
  /\ stopPc' = "timersStopped"
  /\ timers' = {}
  /\ UNCHANGED <<height, round, step, lockedValue, lockedRound, validValue,
                 validRound, line34Executed, line36Executed, line47Executed,
                 msgCache, scheduled, sent, committed, running, gossiped,
                 failed, evaluated, chainHead, commitPending, ctxDone, subscribed,
                 workerPc, signals, received>>
  /\ UNCHANGED <<ethVars, storeVars, codecVars>>

\* core.Stop line 61: c.cancel()
StopCancel ==
  /\ ProcessAlive
  /\ stopPc = "timersStopped"
  /\ stopPc' = "cancelled"
  /\ ctxDone' = TRUE
  /\ UNCHANGED <<subscribed, workerPc, signals, received>>
  /\ UNCHANGED <<ethVars, storeVars, coreVars, codecVars>>

\* core.Stop lines 63-64: stopFutureProposalTimer, unsubscribeEvents
StopUnsubscribe ==
  /\ ProcessAlive
  /\ stopPc = "cancelled"
  /\ stopPc' = "unsubscribed"
  /\ subscribed' = FALSE
  /\ UNCHANGED <<ctxDone, workerPc, signals, received>>
  /\ UNCHANGED <<ethVars, storeVars, coreVars, codecVars>>

\* core.Stop lines 67-69 meeting a worker's send on the unbuffered c.stopped;
\* the third receive lets Stop return
StopReceive(w) ==
  /\ ProcessAlive
  /\ stopPc = "unsubscribed"
  /\ workerPc[w] = "send"
  /\ workerPc' = [workerPc EXCEPT ![w] = "exited"]
  /\ signals' = [signals EXCEPT ![w] = @ + 1]
  /\ received' = received + 1
  /\ stopPc' = IF received + 1 = 3 THEN "returned" ELSE stopPc
  /\ UNCHANGED <<ctxDone, subscribed>>
  /\ UNCHANGED <<ethVars, storeVars, coreVars, codecVars>>

StopNext ==
  \/ StartCall
  \/ MainStartRound
  \/ \E m \in EnvProposals \cup sent : MainHandleMsg(m)
  \/ \E ev \in timers : MainHandleTimeout(ev)
  \/ \E w \in Workers : WorkerReceive(w)
  \/ \E w \in Workers : WorkerHandled(w)
  \/ \E w \in Workers : WorkerBreak(w)
  \/ StopTimers
  \/ StopCancel
  \/ StopUnsubscribe
  \/ \E w \in Workers : StopReceive(w)

(***************************************************************************)
(* Ethereum.validatorController: actions                                   *)
(***************************************************************************)
\* the chain-head events the controller processes in a run
MaxHeads == 6

ControllerInit ==
  /\ ctlPc = "start"
  /\ wasValidating = FALSE
  /\ minerCalls = <<>>
  /\ heads = <<>>
  /\ consensusEnodes = "unset"

\* updateConsensusEnodes: StateAt or CommitteeEnodes may fail, and then the
\* p2p server is left as it was
UpdateConsensusEnodes(enodes, ok) == IF ok THEN "committee" ELSE enodes

\* the loop body with s.miner.Start called for every head of a member
MinerAfterHeadAlways(calls, was, member) ==
  IF ~member
    THEN IF was THEN Append(calls, "Stop") ELSE calls
    ELSE Append(calls, "Start")

\* the calls of the miner after the loop body for one head
MinerAfterHead(calls, was, member) ==
  IF ~member
    THEN IF was THEN Append(calls, "Stop") ELSE calls
    ELSE IF ~was THEN Append(calls, "Start") ELSE calls

\* the statements before the loop, on s.blockchain.CurrentBlock()
ControllerStart(member, ok) ==
  /\ ctlPc = "start"
  /\ ctlPc' = "select"
  /\ heads' = <<member>>
  /\ IF member
       THEN /\ consensusEnodes' = UpdateConsensusEnodes(consensusEnodes, ok)
            /\ minerCalls' = Append(minerCalls, "Start")
            /\ wasValidating' = TRUE
       ELSE UNCHANGED <<consensusEnodes, minerCalls, wasValidating>>
  /\ UNCHANGED <<storeVars, coreVars, codecVars, stopVars, cacherVars>>

\* case ev := <-chainHeadCh
ControllerChainHead(member, ok) ==
  /\ ctlPc = "select"
  /\ Len(heads) <= MaxHeads
  /\ heads' = Append(heads, member)
  /\ minerCalls' = MinerAfterHead(minerCalls, wasValidating, member)
  /\ wasValidating' = member
  /\ consensusEnodes' =
       IF ~member
         THEN IF wasValidating THEN "nil" ELSE consensusEnodes
         ELSE UpdateConsensusEnodes(consensusEnodes, ok)
  /\ UNCHANGED ctlPc
  /\ UNCHANGED <<storeVars, coreVars, codecVars, stopVars, cacherVars>>

\* case <-chainHeadSub.Err(): return
ControllerReturn ==
  /\ ctlPc = "select"
  /\ ctlPc' = "returned"
  /\ UNCHANGED <<wasValidating, minerCalls, heads, consensusEnodes>>
  /\ UNCHANGED <<storeVars, coreVars, codecVars, stopVars, cacherVars>>

ControllerNext ==
  \/ \E member \in BOOLEAN, ok \in BOOLEAN : ControllerStart(member, ok)
  \/ \E member \in BOOLEAN, ok \in BOOLEAN : ControllerChainHead(member, ok)
  \/ ControllerReturn

(***************************************************************************)
(* TxSenderCacher: actions                                                 *)
(***************************************************************************)
\* NewTxSenderCacher(2): two cache goroutines, a channel of 3 * 2 tasks
CacherThreads == 2
TasksCap == 3 * CacherThreads
CacheWorkers == 1 .. CacherThreads
\* the goroutines that call Close
Closers == {"c1", "c2"}
\* len(txs) of the calls of recover
TxCounts == {0, 3, 8}

CacherInit ==
  /\ isClosed = 0
  /\ tasks = [buf |-> 0, closed |-> FALSE, closes |-> 0]
  /\ recoverPc = [pc |-> "idle", i |-> 0, tasks |-> 0]
  /\ closePc = [c \in Closers |-> "idle"]
  /\ cachePc = [w \in CacheWorkers |-> "range"]
  /\ cacherPanic = FALSE

EthInit == ControllerInit /\ CacherInit

\* recover, lines 81-89: the number of tasks for n transactions
RecoverTasks(n) ==
  IF n < CacherThreads * 4 THEN (n + 3) \div 4 ELSE CacherThreads

\* recover is called with n transactions
RecoverCall(n) ==
  /\ ~cacherPanic
  /\ recoverPc.pc \in {"idle", "returned"}
  /\ recoverPc' = IF n = 0 THEN [pc |-> "returned", i |-> 0, tasks |-> 0]
                  ELSE [pc |-> "load", i |-> 0, tasks |-> RecoverTasks(n)]
  /\ UNCHANGED <<isClosed, tasks, closePc, cachePc, cacherPanic>>
  /\ UNCHANGED <<storeVars, coreVars, codecVars, stopVars, ctlVars>>

\* the loop test and atomic.LoadUint32(cacher.isClosed) == 1
RecoverLoad ==
  /\ ~cacherPanic
  /\ recoverPc.pc = "load"
  /\ recoverPc' = IF recoverPc.i < recoverPc.tasks /\ isClosed # 1
                    THEN [recoverPc EXCEPT !.pc = "send"]
                    ELSE [recoverPc EXCEPT !.pc = "returned"]
  /\ UNCHANGED <<isClosed, tasks, closePc, cachePc, cacherPanic>>
  /\ UNCHANGED <<storeVars, coreVars, codecVars, stopVars, ctlVars>>

\* cacher.tasks <- request: blocks while the buffer is full, panics on a
\* closed channel
RecoverSend ==
  /\ ~cacherPanic
  /\ recoverPc.pc = "send"
  /\ tasks.closed \/ tasks.buf < TasksCap
  /\ IF tasks.closed
       THEN /\ cacherPanic' = TRUE
            /\ UNCHANGED <<tasks, recoverPc>>
       ELSE /\ tasks' = [tasks EXCEPT !.buf = @ + 1]
            /\ recoverPc' = [recoverPc EXCEPT !.pc = "load", !.i = @ + 1]
            /\ UNCHANGED cacherPanic
  /\ UNCHANGED <<isClosed, closePc, cachePc>>
  /\ UNCHANGED <<storeVars, coreVars, codecVars, stopVars, ctlVars>>

\* Close: atomic.CompareAndSwapUint32(cacher.isClosed, 0, 1)
CloseSwap(c) ==
  /\ ~cacherPanic
  /\ closePc[c] = "idle"
  /\ isClosed' = 1
  /\ closePc' = [closePc EXCEPT ![c] = IF isClosed = 0 THEN "close" ELSE "returned"]
  /\ UNCHANGED <<tasks, recoverPc, cachePc, cacherPanic>>
  /\ UNCHANGED <<storeVars, coreVars, codecVars, stopVars, ctlVars>>

\* Close: close(cacher.tasks); closing a closed channel panics
CloseTasks(c) ==
  /\ ~cacherPanic
  /\ closePc[c] = "close"
  /\ closePc' = [closePc EXCEPT ![c] = "returned"]
  /\ tasks' = [tasks EXCEPT !.closed = TRUE, !.closes = @ + 1]
  /\ cacherPanic' = tasks.closed
  /\ UNCHANGED <<isClosed, recoverPc, cachePc>>
  /\ UNCHANGED <<storeVars, coreVars, codecVars, stopVars, ctlVars>>

\* cache: for task := range cacher.tasks takes a task and recovers its
\* senders, or ends when the channel is closed and empty
CacheRange(w) ==
  /\ ~cacherPanic
  /\ cachePc[w] = "range"
  /\ tasks.buf > 0 \/ tasks.closed
  /\ IF tasks.buf > 0
       THEN /\ tasks' = [tasks EXCEPT !.buf = @ - 1]
            /\ UNCHANGED cachePc
       ELSE /\ cachePc' = [cachePc EXCEPT ![w] = "exited"]
            /\ UNCHANGED tasks
  /\ UNCHANGED <<isClosed, recoverPc, closePc, cacherPanic>>
  /\ UNCHANGED <<storeVars, coreVars, codecVars, stopVars, ctlVars>>

CacherNext ==
  \/ \E n \in TxCounts : RecoverCall(n)
  \/ RecoverLoad
  \/ RecoverSend
  \/ \E c \in Closers : CloseSwap(c)
  \/ \E c \in Closers : CloseTasks(c)
  \/ \E w \in CacheWorkers : CacheRange(w)

vars == <<storeVars, coreVars, codecVars, stopVars, ethVars>>

Init == StoreInit /\ CoreInit /\ CodecInit /\ StopInit /\ EthInit

SpecStore == Init /\ [][StoreNext]_vars

SpecCore == Init /\ [][CoreNext]_vars

\* the core over several heights, with the payloads of HeightMsgs
CoreHeightsNext ==
  \/ Start
  \/ \E m \in HeightMsgs \cup sent : HandleMsg(m)
  \/ \E ev \in timers : HandleTimeout(ev)
  \/ BackendCommit
  \/ HandleCommit

SpecCoreHeights == Init /\ [][CoreHeightsNext]_vars

\* the core at one height, with the payloads of ErrorMsgs
CoreErrorsNext ==
  \/ Start
  \/ \E m \in ErrorMsgs \cup sent : HandleMsg(m)
  \/ \E ev \in timers : HandleTimeout(ev)

SpecCoreErrors == Init /\ [][CoreErrorsNext]_vars

\* the core in scenario S2, with the payloads of S2Msgs
S2Next ==
  \/ Start
  \/ \E m \in S2Msgs \cup sent : HandleMsg(m)
  \/ \E ev \in timers : HandleTimeout(ev)

SpecS2 == Init /\ [][S2Next]_vars

\* the core in scenario S4, with the payloads of S4Msgs; the payloads of a
\* round arrive once the node has entered that round
S4Next ==
  \/ Start
  \/ \E m \in S4Msgs \cup sent : m.R <= round /\ HandleMsg(m)
  \/ \E ev \in timers : HandleTimeout(ev)

SpecS4 == Init /\ [][S4Next]_vars

SpecCodec == Init /\ [][CodecNext]_vars

SpecStop == Init /\ [][StopNext]_vars

SpecAccountability == Init /\ [][AccountabilityNext]_vars

(***************************************************************************)
(* The upon rules applied to a given Round State and message cache         *)
(***************************************************************************)
\* msgCache.setValid on the hash of a value
SetValid(cache, v) == [cache EXCEPT !.validValues = @ \cup {v}]

\* the current round, its proposed block and a block of the round before
UponRound == 1
UponBlock == "A"
UponOtherBlock == "B"

\* the proposal of the current round and the other members' prevotes for it
UponProposal ==
  Msg(msgProposal, StartHeight, UponRound, UponBlock, -1,
      Proposer(StartHeight, UponRound))
UponPrevotes ==
  {Msg(msgPrevote, StartHeight, UponRound, UponBlock, -1, a) : a \in Members \ {Self}}
UponMsgs == {UponProposal} \cup UponPrevotes

\* what round 0 left in the cache when it locked v: the proposal and a prevote
\* quorum
EarlierQuorum(v) ==
  IF v = NilBlock THEN {}
  ELSE {Msg(msgProposal, StartHeight, 0, v, -1, Proposer(StartHeight, 0))}
         \cup {Msg(msgPrevote, StartHeight, 0, v, -1, a) : a \in Members \ {Self}}

\* (lockedValue, lockedRound) on entering the current round
UponLocks == {<<NilBlock, -1>>, <<UponBlock, 0>>, <<UponOtherBlock, 0>>}

\* the cache that holds the messages ms, every vote set valid, and the
\* verified values vs
UponCache(ms, vs) ==
  [msgs |-> ms,
   valid |-> {m \in ms : m.Code # msgProposal},
   validValues |-> UNION {SetValid(EmptyCache, v).validValues : v \in vs},
   values |-> {m.Value : m \in {x \in ms : x.Code = msgProposal}}]

\* the node is in the current round at any step, unlocked or locked in round
\* 0, with any part of the round's messages cached and the proposed block
\* verified or not; sent, timers and the logs start empty
UponInit ==
  /\ StoreInit /\ CodecInit /\ StopInit /\ EthInit
  /\ height = StartHeight /\ round = UponRound
  /\ step \in {propose, prevote, precommit}
  /\ \E l \in UponLocks :
       /\ lockedValue = l[1] /\ lockedRound = l[2]
       /\ validValue = l[1] /\ validRound = l[2]
       /\ \E ms \in SUBSET UponMsgs, vs \in SUBSET {UponBlock} :
            /\ vs # {} => UponProposal \in ms
            /\ msgCache = UponCache(ms \cup EarlierQuorum(l[1]),
                                    vs \cup ({l[1]} \ {NilBlock}))
  /\ line34Executed = FALSE /\ line36Executed = FALSE /\ line47Executed = FALSE
  /\ timers = {} /\ scheduled = EmptyBag /\ sent = {} /\ committed = {}
  /\ running = "running"
  /\ gossiped = {} /\ failed = {} /\ evaluated = {}
  /\ chainHead = StartHeight - 1 /\ commitPending = FALSE

UponNext == \E m \in UponMsgs : HandleMsg(m)

SpecUpon == UponInit /\ [][UponNext]_vars

(***************************************************************************)
(* Line 49 on its own: a round with a proposal and its precommits          *)
(***************************************************************************)
\* the proposal of round 0 and the other members' precommits for it
CommitProposal ==
  Msg(msgProposal, StartHeight, 0, UponBlock, -1, Proposer(StartHeight, 0))
CommitPrecommits ==
  {Msg(msgPrecommit, StartHeight, 0, UponBlock, -1, a) : a \in Members \ {Self}}
CommitMsgs == {CommitProposal} \cup CommitPrecommits

\* the node is in round 0 or 1 of the height at any step, unlocked or locked
\* on the proposed block, with any part of the proposal and its precommits
\* cached and the proposed block verified or not
CommitInit ==
  /\ StoreInit /\ CodecInit /\ StopInit /\ EthInit
  /\ height = StartHeight /\ round \in {0, UponRound}
  /\ step \in {propose, prevote, precommit}
  /\ \E l \in {<<NilBlock, -1>>, <<UponBlock, 0>>} :
       /\ lockedValue = l[1] /\ lockedRound = l[2]
       /\ validValue = l[1] /\ validRound = l[2]
       /\ \E ms \in SUBSET CommitMsgs, vs \in SUBSET {UponBlock} :
            /\ (vs # {} \/ l[1] # NilBlock) => CommitProposal \in ms
            /\ msgCache = UponCache(ms, vs \cup ({l[1]} \ {NilBlock}))
  /\ line34Executed = FALSE /\ line36Executed = FALSE /\ line47Executed = FALSE
  /\ timers = {} /\ scheduled = EmptyBag /\ sent = {} /\ committed = {}
  /\ running = "running"
  /\ gossiped = {} /\ failed = {} /\ evaluated = {}
  /\ chainHead = StartHeight - 1 /\ commitPending = FALSE

CommitNext == \E m \in CommitMsgs : HandleMsg(m)

SpecCommit == CommitInit /\ [][CommitNext]_vars

(***************************************************************************)
(* Line 55: votes of a later round                                         *)
(***************************************************************************)
\* the other members' votes of round 1, which reach the node while it is in
\* round 0
SkipMsgs ==
  {Msg(c, StartHeight, 1, nilValue, -1, a) :
     c \in {msgPrevote, msgPrecommit}, a \in Members \ {Self}}

SkipNext ==
  \/ Start
  \/ \E m \in SkipMsgs \cup sent : HandleMsg(m)
  \/ \E ev \in timers : HandleTimeout(ev)

SpecSkip == Init /\ [][SkipNext]_vars

SpecController == Init /\ [][ControllerNext]_vars

SpecCacher == Init /\ [][CacherNext]_vars

(***************************************************************************)
(* Properties of the core state machine (SpecCore)                         *)
(***************************************************************************)
\* Line 49 is the only caller of commit and no statement that is reached sets
\* a value valid, so the node never commits.
NeverCommits == committed = {}

IsVote(x) == x.Code \in {msgPrevote, msgPrecommit}

\* C2: the node never broadcasts two distinct prevotes, nor two distinct
\* precommits, for the same height and round.
C2_OneVotePerRound ==
  \A x \in sent : \A y \in sent :
    (IsVote(x) /\ x.Code = y.Code /\ x.H = y.H /\ x.R = y.R) => x = y

\* the node has prevoted and precommitted in round 0 and prevoted again in
\* round 1
C2_Witness ==
  /\ \E x \in sent : x.Code = msgPrevote /\ x.R = 0
  /\ \E x \in sent : x.Code = msgPrecommit /\ x.R = 0
  /\ \E x \in sent : x.Code = msgPrevote /\ x.R = 1

GetHasResult(t) == pc[t] = "Get" /\ pending = {}

ResultMsgs(t) == {MsgAt(messages, arg[t].h, p) : p \in result}

\* C5: a message that was saved, and not since deleted or removed, is in the
\* result of Get(m.height, x = m).
C5_SavedMessageIsFound ==
  \A t \in Threads : \A m \in live :
    (GetHasResult(t) /\ arg[t].h = m.H /\ arg[t].q = QEq(m))
      => m \in ResultMsgs(t)

\* Get finds m although a distinct message was saved under m's key after it
C5_Witness ==
  \E t \in Threads : \E m \in live :
    /\ GetHasResult(t) /\ arg[t].h = m.H /\ arg[t].q = QEq(m)
    /\ m \in ResultMsgs(t)
    /\ Len(ListOf(messages, m.H, KeyOf(m))) = 2
    /\ ListOf(messages, m.H, KeyOf(m))[1] = m
    /\ ListOf(messages, m.H, KeyOf(m))[2] # m

\* C6 as stated: FirstHeightBuffered called after DeleteMsgsBeforeHeight(h)
\* returns a height greater than h.
C6_FirstHeightAboveDeleted ==
  \A t \in Threads :
    (pc[t] = "First" /\ afterDelete >= 0) => firstHeight > afterDelete

\* C6 amended: DeleteMsgsBeforeHeight leaves the height FirstHeightBuffered
\* returns as it was before the call.
C6_DeleteKeepsFirstHeight ==
  [][\A t \in Threads :
       (pc[t] = "Delete" /\ pc'[t] = "idle") => firstHeight' = firstHeight]_vars

\* FirstHeightBuffered is about to return a height that was just deleted
C6_Witness ==
  \E t \in Threads :
    pc[t] = "First" /\ afterDelete >= 0 /\ firstHeight > 0
      /\ firstHeight <= afterDelete

\* C7 as stated: Save leaves the list of the key unchanged when it already
\* holds the message, and appends the message otherwise.
C7_SaveIdempotent ==
  [][\A t \in Threads :
       (pc[t] = "Save" /\ pc'[t] = "idle") =>
         LET m == arg[t].m
             old == ListOf(messages, m.H, KeyOf(m))
             new == ListOf(messages', m.H, KeyOf(m))
         IN IF \E i \in 1 .. Len(old) : old[i] = m
              THEN new = old
              ELSE new = Append(old, m)]_vars

SetMin(S) == CHOOSE x \in S : \A y \in S : x <= y

\* C8 as stated: FirstHeightBuffered returns the lowest height for which a
\* message is retained.
C8_FirstHeightIsLowest ==
  \A t \in Threads :
    (pc[t] = "First" /\ RetainedHeights(messages) # {})
      => firstHeight = SetMin(RetainedHeights(messages))

FirstSaved(hs) == IF hs = <<>> THEN 0 ELSE Head(hs)

\* C8 amended: FirstHeightBuffered returns the height of the first message
\* saved since the store was created, and 0 when none was saved.
C8_FirstHeightIsFirstSaved ==
  \A t \in Threads : pc[t] = "First" => firstHeight = FirstSaved(saveLog)

\* FirstHeightBuffered is about to return a height above the lowest retained
C8_Witness ==
  \E t \in Threads :
    /\ pc[t] = "First"
    /\ RetainedHeights(messages) # {}
    /\ firstHeight > SetMin(RetainedHeights(messages))
    /\ SetMin(RetainedHeights(messages)) > 0

\* C9: DeleteMsgsBeforeHeight(h) removes every height <= h and leaves the
\* lists of every height > h as they were.
C9_DeleteFrame ==
  [][\A t \in Threads :
       (pc[t] = "Delete" /\ pc'[t] = "idle") =>
         \A x \in StoreHeights :
           IF x <= arg[t].h
             THEN x \notin DOMAIN messages'
             ELSE /\ (x \in DOMAIN messages') <=> (x \in DOMAIN messages)
                  /\ RoundMapOf(messages', x) = RoundMapOf(messages, x)]_vars

\* a delete has just dropped the first saved message and kept the second
C9_Witness ==
  /\ afterDelete >= 0
  /\ Len(saveLog) = 2
  /\ saveLog[1] <= afterDelete
  /\ saveLog[2] > afterDelete
  /\ RetainedHeights(messages) = {saveLog[2]}
  /\ \A t \in Threads : pc[t] = "idle"

\* C10 as stated: Save and DeleteMsgsBeforeHeight run under the exclusive
\* lock, Get builds its result under the shared lock, and the query predicate
\* is never running while the store's lock is held.
C10_NoCallbackUnderLock ==
  \A t \in Threads :
    /\ pc[t] \in {"Save", "Delete"} => writer = t
    /\ pc[t] = "Get" => t \in readers
    /\ pc[t] = "query" => (t \notin readers /\ writer # t)

(***************************************************************************)
(* Properties of the codec (SpecCodec)                                     *)
(***************************************************************************)
InRoundRange(w) == LessEqU(w, ToWord(MaxRound))

\* C11: decoding the encoding of a proposal with round in 0..MaxRound,
\* valid round in -1..MaxRound and a block, or of a vote with round in
\* 0..MaxRound, yields the message that was encoded.
C11_RoundTrip ==
  (codecPc = "decoded" /\ codecIn.kind \in {"proposal", "vote"}) =>
    /\ (codecIn.kind = "proposal" /\ InRoundRange(codecIn.Round)
          /\ (codecIn.ValidRound = ToWord(-1) \/ InRoundRange(codecIn.ValidRound))
          /\ codecIn.ProposalBlock # NilProposalBlock)
         => codecOut = codecIn
    /\ (codecIn.kind = "vote" /\ InRoundRange(codecIn.Round))
         => codecOut = codecIn

\* a proposal of round MaxRound with valid round -1 came back from the decoder
C11_Witness ==
  /\ codecPc = "decoded"
  /\ codecIn.kind = "proposal"
  /\ codecIn.Round = ToWord(MaxRound)
  /\ codecIn.ValidRound = ToWord(-1)
  /\ wire.kind = "proposalWire" /\ wire.IsValidRoundNil
  /\ codecOut = codecIn

\* C12 as stated: a vote or proposal whose wire round, or a proposal whose
\* wire valid round, is above MaxRound as an unsigned 64-bit integer is
\* rejected by the decoder.
C12_RejectsRoundsAboveMax ==
  codecPc = "decoded" =>
    /\ (wire.kind = "voteWire" /\ ~InRoundRange(wire.Round))
         => codecOut.kind = "error"
    /\ (wire.kind = "proposalWire"
          /\ (~InRoundRange(wire.Round) \/ ~InRoundRange(wire.ValidRound)))
         => codecOut.kind = "error"

\* C13 as stated: a decoded valid round of -1 comes only from the flag with
\* field 0, the flag with a non-zero field is an error, and without the flag
\* the decoded valid round is the field and is not negative.
C13_FlagAndFieldConsistent ==
  (codecPc = "decoded" /\ wire.kind = "proposalWire") =>
    /\ (codecOut.kind = "proposal" /\ codecOut.ValidRound = ToWord(-1))
         => (wire.IsValidRoundNil /\ wire.ValidRound = ToWord(0))
    /\ (wire.IsValidRoundNil /\ wire.ValidRound # ToWord(0))
         => codecOut.kind = "error"
    /\ (~wire.IsValidRoundNil /\ codecOut.kind = "proposal")
         => (~IsNeg(codecOut.ValidRound) /\ codecOut.ValidRound = wire.ValidRound)

(***************************************************************************)
(* Properties of handleMsg on rejected messages (SpecCoreErrors)           *)
(***************************************************************************)
\* what a message event can change besides the cache and the outputs
RoundStateVars ==
  <<height, round, step, lockedValue, lockedRound, validValue, validRound,
    line34Executed, line36Executed, line47Executed, timers, scheduled,
    sent, committed,
    running>>

BadSeal(m) == m.Code = msgPrecommit /\ ~m.SealOk

\* C14: a precommit whose committed seal fails verification is rejected
\* before it is added to the message cache: no step puts it into the cache,
\* gossips it or gives it to the upon rules, and the step that rejects it
\* changes neither the cache nor the round state.
C14_BadSealRejected ==
  [][/\ \A m \in ErrorMsgs :
          BadSeal(m) => /\ m \notin msgCache'.msgs
                        /\ m \notin gossiped'
                        /\ m \notin evaluated'
     /\ \A m \in failed' \ failed :
          BadSeal(m) =>
            UNCHANGED <<msgCache, RoundStateVars, gossiped, evaluated>>]_vars

\* a precommit with a bad committed seal was handled and is not in the cache
C14_Witness ==
  \E m \in failed : BadSeal(m) /\ m \notin msgCache.msgs


\* C15: a second, distinct proposal of the same proposer at the same height
\* and round is rejected with an error: its block is not added to the cache's
\* values, the cache and the round state are unchanged, no upon rule sees it
\* and it is not gossiped; a payload that was already processed is accepted
\* without error and changes neither the cache nor the round state.
C15_DuplicateProposalRejected ==
  [][/\ \A m \in ErrorMsgs \cup sent :
          (~CacheHas(msgCache, m) /\ DuplicateProposal(msgCache, m)) =>
            /\ m \notin msgCache'.msgs
            /\ m.Value \in msgCache'.values => m.Value \in msgCache.values
            /\ m \in gossiped' => m \in gossiped
            /\ m \in evaluated' => m \in evaluated
     /\ \A m \in failed' \ failed :
          (~CacheHas(msgCache, m) /\ DuplicateProposal(msgCache, m)) =>
            UNCHANGED <<msgCache, RoundStateVars, gossiped, evaluated>>
     /\ \A m \in gossiped' \ gossiped :
          CacheHas(msgCache, m) =>
            UNCHANGED <<msgCache, RoundStateVars, failed, evaluated>>]_vars

\* the second proposal of the round was rejected, and the first one was
\* delivered again after it had been processed
C15_Witness ==
  \E m \in failed, x \in msgCache.msgs :
    /\ m.Code = msgProposal /\ x.Code = msgProposal
    /\ x.H = m.H /\ x.R = m.R /\ x.Address = m.Address /\ x.Value # m.Value
    /\ m \notin msgCache.msgs /\ m.Value \notin msgCache.values
    /\ x \in gossiped

InvalidSender(m) == m.Address \notin Members \/ m.Signer # m.Address

\* C16 as stated: a current-height message that fails the committee
\* membership check or whose signer differs from its declared sender is
\* discarded: once handleMsg has returned the error the message is not in
\* the message cache, is not gossiped and counts for no quorum.
C16_InvalidSenderDiscarded ==
  \A m \in failed :
    InvalidSender(m) =>
      /\ m \notin msgCache.msgs
      /\ m \notin gossiped
      /\ m \notin msgCache.valid

(***************************************************************************)
(* Properties of handleMsg over several heights (SpecCoreHeights)          *)
(***************************************************************************)
\* C17: handling a message whose height is not the node's height, future or
\* past, only adds it to the cache: height, round, step, the locked and
\* valid value and round are unchanged, no vote is sent, no timeout is
\* scheduled, nothing is committed and no upon rule sees the message.
C17_OtherHeightOnlyCached ==
  [][\A m \in msgCache'.msgs \ msgCache.msgs :
       m.H # height =>
         /\ UNCHANGED <<RoundStateVars, failed, evaluated>>
         /\ msgCache'.valid = msgCache.valid
         /\ msgCache'.validValues = msgCache.validValues]_vars

\* at the second height the cache holds a message of that height that was
\* added while the node was at the first height, and a message of the first
\* height that was added at the second
C17_Witness ==
  /\ height = StartHeight + 1
  /\ \E m \in msgCache.msgs : m.H = height /\ m \notin evaluated \cup failed
  /\ \E m \in msgCache.msgs : m.H < height /\ m \notin evaluated \cup failed

\* no event is left: every payload was delivered, no timer is pending and
\* no commit event is pending
Quiescent == ~ENABLED <<CoreHeightsNext>>_vars

C20_RoundAndStepAdvance ==
  [][(running = "running" /\ height' = height) =>
       /\ round' >= round
       /\ round' = round => step' >= step
       /\ \A m \in msgCache'.msgs \ msgCache.msgs :
            m.R < round => (round' = round /\ step' = step)]_vars

\* in round 1, after the step moved from propose to prevote, all three nil
\* prevotes of round 0 have been processed and the node is still at prevote
C20_Witness ==
  /\ round = 1
  /\ step = prevote
  /\ \E x \in sent : x.Code = msgPrevote /\ x.R = 1
  /\ PrevoteQuorum(msgCache, height, nilValue, 0)
  /\ \A x \in sent : x.Code = msgPrecommit => x.R # 0

(***************************************************************************)
(* Properties of the shutdown (SpecStop)                                   *)
(***************************************************************************)
\* Stop was called and no step of the process is left
StopFinished == stopPc # "idle" /\ ~ENABLED <<StopNext>>_vars

\* C21 as stated: after Stop is called on a started core, for every
\* interleaving with the events being processed, the run ends with each of
\* the three workers exited after exactly one signal on the stop channel
\* and with Stop returned.
C21_ShutdownTerminates ==
  StopFinished =>
    /\ stopPc = "returned"
    /\ \A w \in Workers : workerPc[w] = "exited" /\ signals[w] = 1

(***************************************************************************)
(* Scenario S2, proposer silent (SpecS2)                                   *)
(***************************************************************************)
\* the node was started and no event is left
S2Finished == running # "new" /\ ~ENABLED <<S2Next>>_vars

\* C22 as stated: with the round-0 proposer silent the node prevotes nil at
\* the propose timeout, precommits nil after the nil prevote quorum, moves
\* to round 1 at the precommit timeout and in the end has committed the
\* block of the round-1 proposer at round 1, and nothing at round 0.
C22_SilentProposerCommitsAtRound1 ==
  S2Finished =>
    /\ Msg(msgPrevote, StartHeight, 0, nilValue, -1, Self) \in sent
    /\ Msg(msgPrecommit, StartHeight, 0, nilValue, -1, Self) \in sent
    /\ committed = {[H |-> StartHeight, Value |-> S2Block, Round |-> 1]}

(***************************************************************************)
(* Scenario S4, lock and unlock (SpecS4)                                   *)
(***************************************************************************)
\* the node was started and no event is left
S4Finished == running # "new" /\ ~ENABLED <<S4Next>>_vars

\* C23 as stated: the node locks on B at round 0, prevotes nil for the
\* fresh proposal of round 1, prevotes B at round 2 when B is proposed
\* again with valid round 0 and the prevote quorum for B at round 0 is in
\* its cache, and in the end B is committed.
C23_LockedNodeUnlocksAndCommits ==
  S4Finished =>
    /\ Msg(msgPrevote, StartHeight, 1, nilValue, -1, Self) \in sent
    /\ Msg(msgProposal, StartHeight, 2, S4Block, 0, Self) \in sent
    /\ Msg(msgPrevote, StartHeight, 2, S4Block, -1, Self) \in sent
    /\ \E c \in committed : c.H = StartHeight /\ c.Value = S4Block

(***************************************************************************)
(* Properties of the accountability codec (SpecAccountability)             *)
(***************************************************************************)
\* the codes typedMessage.DecodeRLP has a case for
TypedCodes == {PrevoteCode, PrecommitCode, LightProposalCode}
ProofMessages(p) == {p.Message} \cup {p.Evidences[i] : i \in 1 .. Len(p.Evidences)}
\* q is a Proof of p's type and rule whose message and evidences carry, in
\* order, the kind and content of p's
SameProof(p, q) ==
  /\ q.kind = "proof"
  /\ q.Type = p.Type /\ q.Rule = p.Rule
  /\ q.Message.Message = p.Message
  /\ Len(q.Evidences) = Len(p.Evidences)
  /\ \A i \in 1 .. Len(p.Evidences) : q.Evidences[i].Message = p.Evidences[i]
ProofDecoded == codecPc = "decoded" /\ codecIn.kind = "proof"

\* C24 as stated: decoding the encoding of any Proof over consensus messages
\* (proposals, prevotes, precommits, light proposals) yields a Proof of the
\* same type and rule with the same message and the same evidences in order.
C24_ProofRoundTripAnyMessage == ProofDecoded => SameProof(codecIn, codecOut)

\* C24 amended: decoding the encoding of a Proof whose message and evidences
\* are prevotes, precommits or light proposals yields a Proof of the same type
\* and rule, a message of the same kind and content and the same evidences in
\* the same order (none stays none); a Proof that carries a full proposal
\* encodes but does not decode.
C24_ProofRoundTrip ==
  ProofDecoded =>
    IF \A m \in ProofMessages(codecIn) : m.Code \in TypedCodes
      THEN SameProof(codecIn, codecOut)
      ELSE codecOut.kind = "error"

\* a Proof with a light proposal of valid round -1 and two evidences of
\* different kinds has come back from the decoder
C24_Witness ==
  /\ ProofDecoded
  /\ codecOut.kind = "proof"
  /\ codecIn.Message.Code = LightProposalCode /\ codecIn.Message.Body[3] = -1
  /\ Len(codecIn.Evidences) = 2
  /\ codecIn.Evidences[1].Code = PrevoteCode
  /\ codecIn.Evidences[2].Code = PrecommitCode
  /\ codecIn.Type = 0

TypedDecoded == codecPc = "decoded" /\ wire.kind = "typedWire"
TypedEncoded == TypedDecoded /\ codecIn.kind = "typedMessage"

\* C25 as stated: a typed message of any of the four codes round-trips, a
\* decoded message is of the kind its tag names, and a tag outside the four
\* codes fails with the unexpected-code error, the target left unset.
C25_TypedRoundTripFourCodes ==
  /\ (TypedEncoded /\ codecIn.Message \in ProofMsgs) =>
       codecOut.err = noError /\ codecOut.Message = codecIn.Message
  /\ (TypedDecoded /\ codecOut.Message # NoMessage) =>
       Len(wire.tag) = 1 /\ codecOut.Message.Code = wire.tag[1]
  /\ (TypedDecoded /\ Len(wire.tag) = 1 /\ wire.tag[1] \notin 0 .. 3) =>
       codecOut.err = errUnexpectedCode /\ codecOut.Message = NoMessage

\* C25 amended: a typed prevote, precommit or light proposal (codes 1, 2, 3)
\* round-trips; a typed full proposal (code 0) encodes to an empty tag that
\* the decoder refuses; a decoded message is of the kind its tag names; and a
\* tag byte other than 1, 2, 3 fails with the unexpected-code error, the
\* target left unset.
C25_TypedRoundTrip ==
  /\ (TypedEncoded /\ codecIn.Message \in ProofMsgs) =>
       IF codecIn.Message.Code \in TypedCodes
         THEN codecOut.err = noError /\ codecOut.Message = codecIn.Message
         ELSE codecOut.err = ErrExpectedString /\ codecOut.Message = NoMessage
  /\ (TypedDecoded /\ codecOut.Message # NoMessage) =>
       Len(wire.tag) = 1 /\ codecOut.Message.Code = wire.tag[1]
  /\ (TypedDecoded /\ Len(wire.tag) = 1 /\ wire.tag[1] \notin TypedCodes) =>
       codecOut.err = errUnexpectedCode /\ codecOut.Message = NoMessage

\* a typed precommit has come back from the decoder as a precommit
C25_Witness ==
  /\ TypedEncoded
  /\ codecIn.Message.Code = PrecommitCode
  /\ codecOut.err = noError
  /\ codecOut.Message.Code = PrecommitCode

(***************************************************************************)
(* Properties of the upon rules (SpecUpon, SpecCore)                       *)
(***************************************************************************)
\* C29: when the step that evaluates a proposal or prevote finds a prevote
\* quorum for the valid proposed value v at the current round r, then from
\* step prevote the node locks (v, r), broadcasts a precommit for v and moves
\* to step precommit; from step precommit the lock and the step are left
\* unchanged; in both cases (validValue, validRound) becomes (v, r).
C29_Line36Lock ==
  [][\A m \in evaluated' \ evaluated :
       \A p \in MatchingProposals(msgCache', m) :
         (/\ m.Code \in {msgProposal, msgPrevote} /\ p.R = round
          /\ PrevoteQuorum(msgCache', height, p.Value, round)
          /\ IsValid(msgCache', p.Value)
          /\ step \in {prevote, precommit}) =>
            /\ step = prevote =>
                 /\ lockedValue' = p.Value /\ lockedRound' = round
                 /\ Msg(msgPrecommit, height, round, p.Value, -1, Self) \in sent'
                 /\ step' = precommit
            /\ step = precommit => UNCHANGED <<lockedValue, lockedRound, step>>
            /\ validValue' = p.Value /\ validRound' = round]_vars

\* the node has locked the block of the current round and precommitted for it
C29_Witness ==
  /\ round = UponRound /\ step = precommit
  /\ lockedValue = UponBlock /\ lockedRound = UponRound
  /\ validValue = UponBlock /\ validRound = UponRound
  /\ Msg(msgPrecommit, StartHeight, UponRound, UponBlock, -1, Self) \in sent
  /\ PrevoteQuorum(msgCache, StartHeight, UponBlock, UponRound)

\* C28 as stated: when a proposal of the current round with valid round -1
\* is evaluated in step propose, the node prevotes for the proposed value if
\* the value is valid and (lockedRound = -1 or lockedValue = value), and
\* prevotes NIL in every other case; it sends no other prevote.
C28_Line22Prevote ==
  [][\A m \in evaluated' \ evaluated :
       (/\ m.Code = msgProposal /\ m.R = round /\ m.ValidRound = -1
        /\ step = propose) =>
          LET v == IF IsValid(msgCache', m.Value)
                      /\ (lockedRound = -1 \/ lockedValue = m.Value)
                     THEN m.Value ELSE nilValue
          IN  /\ Msg(msgPrevote, height, round, v, -1, Self) \in sent'
              /\ \A x \in sent' \ sent : x.Code = msgPrevote => x.Value = v]_vars

\* C30 as stated: when a prevote of the current round is evaluated in step
\* prevote and the cache holds a prevote quorum for NIL at the round (and no
\* quorum for a valid proposed value, which Line 36 would take first), the
\* node broadcasts a precommit for NIL, no precommit for a value, and moves
\* to step precommit.
C30_Line44PrecommitNil ==
  [][\A m \in evaluated' \ evaluated :
       (/\ m.Code = msgPrevote /\ m.R = round /\ step = prevote
        /\ PrevoteQuorum(msgCache', height, nilValue, round)
        /\ \A p \in msgCache'.msgs :
             (p.Code = msgProposal /\ p.H = height /\ p.R = round) =>
               ~(PrevoteQuorum(msgCache', height, p.Value, round)
                 /\ IsValid(msgCache', p.Value))) =>
          /\ step' = precommit
          /\ Msg(msgPrecommit, height, round, nilValue, -1, Self) \in sent'
          /\ \A x \in sent' \ sent : x.Code = msgPrecommit => x.Value = nilValue]_vars

(***************************************************************************)
(* Properties of the latches and the timeouts (SpecCore)                   *)
(***************************************************************************)
\* C31 as stated, for the two latched timers: within one round the prevote
\* timeout (Line 34) and the precommit timeout (Line 47) are each scheduled
\* at most once, however many further prevotes or precommits of the round
\* arrive.
C31_LatchedRulesFireOnce ==
  \A t \in BagToSet(scheduled) :
    t.kind \in {"prevote", "precommit"} => CopiesIn(t, scheduled) <= 1

\* C32 as stated: the timer that Line 34 schedules is the prevote timeout,
\* and when it expires at an unchanged (H, r), being the only timer of the
\* round, the node broadcasts a precommit for NIL and moves to step
\* precommit without leaving the round.
C32_PrevoteTimeoutPrecommitsNil ==
  [][\A ev \in timers \ timers' :
       (/\ ev.kind = "prevote" /\ ev.h = height /\ ev.r = round
        /\ {t \in timers : t.h = height /\ t.r = round} = {ev}) =>
          /\ round' = round
          /\ step' = precommit
          /\ Msg(msgPrecommit, height, round, nilValue, -1, Self) \in sent']_vars

C34_Line55SkipsToRound ==
  [][\A m \in evaluated' \ evaluated :
       (m.H = height /\ m.R > round /\ Fail(msgCache', m.R, height)) =>
         round' = m.R /\ step' = propose]_vars

(***************************************************************************)
(* Properties of the proposal checks and of the evaluation of the rules    *)
(***************************************************************************)
\* backend.VerifyProposal succeeds on the blocks of the runs, which are all
\* built by honest proposers
VerifyProposalOk(v) == v \in {"A", "B", FreshBlock}

\* C35 as stated: once a current-height proposal of the legitimate proposer
\* has been accepted and the upon rules evaluated on it, its block has been
\* verified and the validity flag of the value is set exactly when the
\* verification succeeded.
C35_ProposalVerifiedOnce ==
  \A m \in evaluated :
    (m.Code = msgProposal /\ m.H = height /\ Proposer(m.H, m.R) = m.Address) =>
      (IsValid(msgCache, m.Value) <=> VerifyProposalOk(m.Value))

\* C36 as stated, for Line 44: at the end of every event the rule is not
\* left enabled, that is, the node is not in step prevote with a prevote
\* quorum for NIL of the current round in its cache; when the step changes
\* inside an event and the quorum is already cached, the rule has fired
\* (the node is in step precommit) without a further message.
C36_NoRuleLeftEnabled ==
  running = "running" =>
    ~(step = prevote /\ PrevoteQuorum(msgCache, height, nilValue, round))

\* C37 as stated: a current-height payload for which handleMsg returned an
\* error is never gossiped by the node, not even when the same payload is
\* delivered again later.
C37_FailedNeverGossiped ==
  \A m \in failed : m.H = height => m \notin gossiped

(***************************************************************************)
(* Properties of validatorController (SpecController)                      *)
(***************************************************************************)
MinerStarted ==
  Len(minerCalls) > 0 /\ minerCalls[Len(minerCalls)] = "Start"

\* C38: once the controller has looked at the current block, and after every
\* chain-head event, the miner is started and not stopped since exactly when
\* the local address is a member of the committee of the head processed
\* last, and the calls of Start and Stop alternate, Start first.
C38_MinerFollowsCommittee ==
  ctlPc # "start" =>
    /\ MinerStarted <=> heads[Len(heads)]
    /\ \A i \in 1 .. Len(minerCalls) :
         minerCalls[i] = IF i % 2 = 1 THEN "Start" ELSE "Stop"

\* the node was a member for two heads in a row, left the committee and
\* joined again: Start, Stop, Start
C38_Witness ==
  /\ minerCalls = <<"Start", "Stop", "Start">>
  /\ \E i \in 1 .. Len(heads) - 1 : heads[i] /\ heads[i + 1]
  /\ \E i \in 1 .. Len(heads) - 1 : ~heads[i] /\ ~heads[i + 1]

(***************************************************************************)
(* Properties of TxSenderCacher (SpecCacher)                               *)
(***************************************************************************)
\* C40 as stated, its safety part: in every interleaving of recover with
\* Close no task is sent on the tasks channel after the channel was closed,
\* and the channel is closed at most once.
C40_NoSendAfterClose ==
  /\ ~cacherPanic
  /\ tasks.closes <= 1

(***************************************************************************)
(* Properties of the timers at shutdown (SpecStop)                         *)
(***************************************************************************)
\* C39 as stated: once core.Stop has returned, no propose, prevote or
\* precommit timer is left running, so that no TimeoutEvent is posted any
\* more, whatever the interleaving of Stop with the main event loop.
C39_NoTimerAfterStop ==
  stopPc = "returned" => timers = {}

====
